---- MODULE Spec2Model ----
\* Model of the valet reconciliation engine (framework/reconciler.go and
\* framework/types.go): one managed resource, its status record, its
\* output Secret, the external provider and the host work queue.
\*
\* Time is an integer number of ticks; key ids are the serial numbers the
\* provider hands out, 0 standing for the empty key id.

EXTENDS Integers, Sequences, FiniteSets, TLC

\* ---------------------------------------------------------------- bounds
MaxTime == 2          \* the clock stops here
MaxGeneration == 2    \* spec edits stop here
MaxKeys == 2          \* successful provisions stop here
MaxFaults == 1        \* injected provider/API failures stop here
MaxFailures == 2      \* failureCount stops here
ShortValidity == 1    \* a key lifetime that expires within MaxTime
LongValidity == 20    \* a key lifetime that does not
MaxValidity == 32     \* the longest key lifetime whose rotation is followed
MaxCalls == 3         \* calls made on one instrumented provider
MaxRun == 3           \* the longest run of SetFailed calls on one status
MaxLen == 3           \* the longest key list the status operations are given

\* ------------------------------------------------------------- constants
Finalizer == "cso.ngl.cx/finalizer"
Minute == 2
maxRetries == 5
RenewalThreshold == 7 * 24 * 60 * Minute
ConditionReady == "Ready"
PhaseReady == "Ready"
PhaseFailed == "Failed"

\* The lifetimes Provision may give a credential.  No provider of the
\* repository checks the validity the user configures, so ValidUntil may lie
\* before ProvisionedAt.
Validities == {-ShortValidity, ShortValidity, LongValidity}

Min(a, b) == IF a < b THEN a ELSE b
Max(a, b) == IF a > b THEN a ELSE b

\* Go integer division truncates toward zero.
GoDiv(a, b) == IF a >= 0 THEN a \div b ELSE -((-a) \div b)

\* ------------------------------------------------------------ key set
\* NearExpiry that takes a key for expired from the instant of its expiry.
NearExpiryInclusive(k, now) ==
    IF k.expiresAt <= now
    THEN TRUE
    ELSE LET validity == k.expiresAt - k.createdAt
             threshold == Min(GoDiv(validity, 10), RenewalThreshold)
         IN  (k.expiresAt - now) < threshold

\* ActiveKey.NearExpiry
NearExpiry(k, now) ==
    IF k.expiresAt < now
    THEN TRUE
    ELSE LET validity == k.expiresAt - k.createdAt
             threshold == Min(GoDiv(validity, 10), RenewalThreshold)
         IN  (k.expiresAt - now) < threshold

RECURSIVE NewestFrom(_, _, _)
NewestFrom(keys, i, best) ==
    IF i > Len(keys) THEN best
    ELSE IF best = 0 \/ keys[i].createdAt > keys[best].createdAt
         THEN NewestFrom(keys, i + 1, i)
         ELSE NewestFrom(keys, i + 1, best)

\* ActiveKeys.Newest: index of the most recently created key, 0 for nil.
Newest(keys) == NewestFrom(keys, 1, 0)

\* ActiveKeys.DropExpired with keep(k) == k.keyId \in keep.  The result
\* holds the retained keys, the dropped keys and the keys offered to keep.
RECURSIVE DropExpiredFrom(_, _, _, _, _)
DropExpiredFrom(keys, now, keep, i, acc) ==
    IF i > Len(keys) THEN acc
    ELSE LET k == keys[i] IN
         IF ~(k.expiresAt < now)
         THEN DropExpiredFrom(keys, now, keep, i + 1,
                [acc EXCEPT !.kept = Append(@, k)])
         ELSE IF k.keyId \in keep
         THEN DropExpiredFrom(keys, now, keep, i + 1,
                [acc EXCEPT !.kept = Append(@, k), !.offered = Append(@, k.keyId)])
         ELSE DropExpiredFrom(keys, now, keep, i + 1,
                [acc EXCEPT !.dropped = Append(@, k), !.offered = Append(@, k.keyId)])

\* DropExpired that takes a key expiring right now for expired.
DropExpiredInclusive(keys, now, keep) ==
    DropExpiredFrom(keys, now + 1, keep, 1,
                    [kept |-> <<>>, dropped |-> <<>>, offered |-> <<>>])

DropExpired(keys, now, keep) ==
    DropExpiredFrom(keys, now, keep, 1,
                    [kept |-> <<>>, dropped |-> <<>>, offered |-> <<>>])

\* ------------------------------------------------------ status algebra
\* SetStatusCondition that adds the condition without looking for one of
\* its type.
SetStatusConditionAppending(conds, c) == Append(conds, c)

\* meta.SetStatusCondition: one condition per type, replaced in place.
SetStatusCondition(conds, c) ==
    IF \E i \in 1..Len(conds) : conds[i].type = c.type
    THEN [i \in 1..Len(conds) |-> IF conds[i].type = c.type THEN c ELSE conds[i]]
    ELSE Append(conds, c)

\* A renewal check that always asks for renewal.
NeedsRenewalAlways(s, currentGeneration, secretHasData, now) == TRUE

\* A renewal check that does not look at the generation.
NeedsRenewalIgnoringGeneration(s, currentGeneration, secretHasData, now) ==
    IF Len(s.activeKeys) = 0 THEN TRUE
    ELSE IF ~secretHasData THEN TRUE
    ELSE IF Newest(s.activeKeys) = 0 THEN TRUE
    ELSE NearExpiry(s.activeKeys[Newest(s.activeKeys)], now)

\* A renewal check that does not look at the Secret.
NeedsRenewalIgnoringSecret(s, currentGeneration, secretHasData, now) ==
    IF Len(s.activeKeys) = 0 THEN TRUE
    ELSE IF s.observedGeneration # currentGeneration THEN TRUE
    ELSE IF Newest(s.activeKeys) = 0 THEN TRUE
    ELSE NearExpiry(s.activeKeys[Newest(s.activeKeys)], now)

\* ClientSecretStatus.NeedsRenewal
NeedsRenewal(s, currentGeneration, secretHasData, now) ==
    IF Len(s.activeKeys) = 0 THEN TRUE
    ELSE IF s.observedGeneration # currentGeneration THEN TRUE
    ELSE IF ~secretHasData THEN TRUE
    ELSE IF Newest(s.activeKeys) = 0 THEN TRUE
    ELSE NearExpiry(s.activeKeys[Newest(s.activeKeys)], now)

\* A delay that runs to the expiry itself.
RenewalDurationUntilExpiry(s, now) ==
    IF Newest(s.activeKeys) = 0 THEN 0
    ELSE Max(s.activeKeys[Newest(s.activeKeys)].expiresAt - now, Minute)

\* A delay without the one-minute floor.
RenewalDurationNoFloor(s, now) ==
    IF Newest(s.activeKeys) = 0 THEN 0
    ELSE LET newest == s.activeKeys[Newest(s.activeKeys)]
             validity == newest.expiresAt - newest.createdAt
             threshold == Min(GoDiv(validity, 10), RenewalThreshold)
         IN  (newest.expiresAt - now) - threshold

\* ClientSecretStatus.RenewalDuration
RenewalDuration(s, now) ==
    IF Newest(s.activeKeys) = 0 THEN 0
    ELSE LET newest == s.activeKeys[Newest(s.activeKeys)]
             validity == newest.expiresAt - newest.createdAt
             threshold == Min(GoDiv(validity, 10), RenewalThreshold)
             d == (newest.expiresAt - now) - threshold
         IN  Max(d, Minute)

\* SetReady that forgets to clear the failure counter.
SetReadyKeepingFailures(s, generation, result) ==
    [s EXCEPT !.phase = PhaseReady,
              !.observedGeneration = generation,
              !.currentKeyID = result.keyId,
              !.lastFailure = -1,
              !.lastFailureMessage = "",
              !.activeKeys = IF result.keyId # 0
                             THEN Append(@, [keyId |-> result.keyId,
                                             createdAt |-> result.provisionedAt,
                                             expiresAt |-> result.validUntil])
                             ELSE @,
              !.conditions = SetStatusCondition(@,
                                [type |-> ConditionReady, status |-> "True",
                                 reason |-> "Provisioned",
                                 message |-> "Credentials provisioned successfully",
                                 observedGeneration |-> generation])]

\* SetReady that appends a key entry also for an empty key id.
SetReadyTrackingEmpty(s, generation, result) ==
    [s EXCEPT !.phase = PhaseReady,
              !.observedGeneration = generation,
              !.currentKeyID = result.keyId,
              !.failureCount = 0,
              !.lastFailure = -1,
              !.lastFailureMessage = "",
              !.activeKeys = Append(@, [keyId |-> result.keyId,
                                        createdAt |-> result.provisionedAt,
                                        expiresAt |-> result.validUntil]),
              !.conditions = SetStatusCondition(@,
                                [type |-> ConditionReady, status |-> "True",
                                 reason |-> "Provisioned",
                                 message |-> "Credentials provisioned successfully",
                                 observedGeneration |-> generation])]

\* SetReady that leaves the conditions as they were.
SetReadyStaleCondition(s, generation, result) ==
    [s EXCEPT !.phase = PhaseReady,
              !.observedGeneration = generation,
              !.currentKeyID = result.keyId,
              !.failureCount = 0,
              !.lastFailure = -1,
              !.lastFailureMessage = "",
              !.activeKeys = IF result.keyId # 0
                             THEN Append(@, [keyId |-> result.keyId,
                                             createdAt |-> result.provisionedAt,
                                             expiresAt |-> result.validUntil])
                             ELSE @]

\* SetReady that puts the new key at the head of the list.
SetReadyPrepending(s, generation, result) ==
    [s EXCEPT !.phase = PhaseReady,
              !.observedGeneration = generation,
              !.currentKeyID = result.keyId,
              !.failureCount = 0,
              !.lastFailure = -1,
              !.lastFailureMessage = "",
              !.activeKeys = IF result.keyId # 0
                             THEN <<[keyId |-> result.keyId,
                                     createdAt |-> result.provisionedAt,
                                     expiresAt |-> result.validUntil]>> \o @
                             ELSE @,
              !.conditions = SetStatusCondition(@,
                                [type |-> ConditionReady, status |-> "True",
                                 reason |-> "Provisioned",
                                 message |-> "Credentials provisioned successfully",
                                 observedGeneration |-> generation])]

\* ClientSecretStatus.SetReady
SetReady(s, generation, result) ==
    [s EXCEPT !.phase = PhaseReady,
              !.observedGeneration = generation,
              !.currentKeyID = result.keyId,
              !.failureCount = 0,
              !.lastFailure = -1,
              !.lastFailureMessage = "",
              !.activeKeys = IF result.keyId # 0
                             THEN Append(@, [keyId |-> result.keyId,
                                             createdAt |-> result.provisionedAt,
                                             expiresAt |-> result.validUntil])
                             ELSE @,
              !.conditions = SetStatusCondition(@,
                                [type |-> ConditionReady, status |-> "True",
                                 reason |-> "Provisioned",
                                 message |-> "Credentials provisioned successfully",
                                 observedGeneration |-> generation])]

\* SetFailed that also advances observedGeneration.
SetFailedAdvancingGeneration(s, generation, err, now) ==
    [s EXCEPT !.phase = PhaseFailed,
              !.observedGeneration = generation,
              !.failureCount = @ + 1,
              !.lastFailure = now,
              !.lastFailureMessage = err,
              !.conditions = SetStatusCondition(@,
                                [type |-> ConditionReady, status |-> "False",
                                 reason |-> "ProvisioningFailed",
                                 message |-> err,
                                 observedGeneration |-> generation])]

\* SetFailed that starts the failure count again at one.
SetFailedResettingCount(s, generation, err, now) ==
    [s EXCEPT !.phase = PhaseFailed,
              !.failureCount = 1,
              !.lastFailure = now,
              !.lastFailureMessage = err,
              !.conditions = SetStatusCondition(@,
                                [type |-> ConditionReady, status |-> "False",
                                 reason |-> "ProvisioningFailed",
                                 message |-> err,
                                 observedGeneration |-> generation])]

\* ClientSecretStatus.SetFailed
SetFailed(s, generation, err, now) ==
    [s EXCEPT !.phase = PhaseFailed,
              !.failureCount = @ + 1,
              !.lastFailure = now,
              !.lastFailureMessage = err,
              !.conditions = SetStatusCondition(@,
                                [type |-> ConditionReady, status |-> "False",
                                 reason |-> "ProvisioningFailed",
                                 message |-> err,
                                 observedGeneration |-> generation])]

KeyIds(keys) == {keys[i].keyId : i \in 1..Len(keys)}


\* ------------------------------------------------------------- state
VARIABLES
    exists,             \* the managed resource is stored in the API server
    generation,         \* metadata.generation
    specValid,          \* resource.Validate() returns nil
    deletionTimestamp,  \* metadata.deletionTimestamp is non-zero
    hasFinalizer,       \* Finalizer is in metadata.finalizers
    status,             \* the persisted ClientSecretStatus
    secret,             \* the output Secret named spec.secretRef.name
    now,                \* the clock
    nextKey,            \* serial number of the provider's next credential
    issued,             \* key ids issued and not yet deleted with success
    faults,             \* failures the environment may still inject
    queued,             \* the host work queue holds a request for the resource
    requeueAt,          \* time of the pending delayed request, -1 for none
    pass,               \* what the most recent Reconcile pass did
    quiet,              \* nothing outside the engine has acted since that pass
    metrics,            \* the InstrumentedProvider's counters and its calls
    retry               \* the run of the Azure provider's withRetry

vars == <<exists, generation, specValid, deletionTimestamp, hasFinalizer,
          status, secret, now, nextKey, issued, faults,
          queued, requeueAt, pass, quiet, metrics, retry>>

\* The state of the provider wrappers, which the engine does not touch.
auxVars == <<metrics, retry>>

resourceVars == <<exists, generation, specValid, deletionTimestamp,
                  hasFinalizer>>

EmptyStatus ==
    [observedGeneration |-> 0, phase |-> "", currentKeyID |-> 0,
     activeKeys |-> <<>>, failureCount |-> 0, lastFailure |-> -1,
     lastFailureMessage |-> "", conditions |-> <<>>]

NoSecret == [exists |-> FALSE, owner |-> "none", data |-> 0]

NoResult == [keyId |-> 0, stringData |-> 0, provisionedAt |-> 0, validUntil |-> 0]

\* ctrl.Result and the returned error
Directive(kind, after, err, count) ==
    [kind |-> kind, after |-> after, err |-> err, count |-> count]

NoDirective == Directive("none", 0, "", 0)
RequeueNow == Directive("requeue", 0, "", 0)
ErrorDirective(err) == Directive("error", 0, err, 0)

\* A call of one operation of the key set or of the status: the status it
\* was made on, its arguments and what it returned.
NoCall == [op |-> "none", on |-> EmptyStatus, args |-> <<>>, answer |-> <<>>]

\* go's nil error.
NilError == "<nil>"

\* A freshly registered InstrumentedProvider: every counter at zero, no call
\* made.  inner and outer log the calls the inner provider received and the
\* calls made on the wrapper.
NoMetrics ==
    [ProvisionTotal |-> [label \in {"success", "error"} |-> 0],
     DeleteKeyTotal |-> [label \in {"success", "error"} |-> 0],
     inner |-> <<>>, outer |-> <<>>]

\* go's nil error among error messages that are written letter by letter.
NoErr == <<"<nil>">>

\* withRetry before its loop: attempt is the loop variable, invocations
\* the errors fn has returned so far, sleeps the number of delays taken.
NoRetry ==
    [attempt |-> 0, invocations |-> <<>>, sleeps |-> 0,
     returned |-> FALSE, err |-> NoErr]

NoPass ==
    [branch |-> "none", finalizerAtStart |-> FALSE,
     provisionCalls |-> 0, provisionOk |-> FALSE, result |-> NoResult,
     deleteCalls |-> <<>>, deleteOk |-> {},
     secretWrites |-> 0, secretWritten |-> FALSE,
     statusWrites |-> 0, resourceWrites |-> 0, finalizerAdded |-> FALSE,
     finalizerRemoved |-> FALSE, setReady |-> FALSE, setFailed |-> FALSE,
     persisted |-> FALSE, outcome |-> "none", prevOutcome |-> "none",
     failedRun |-> 0, faulty |-> FALSE, calls |-> <<>>, steps |-> <<>>,
     apiErrors |-> {}, directive |-> NoDirective, call |-> NoCall]

\* Provider calls with Provision ahead of the cleanup's DeleteKey calls.
ProviderCallsProvisionFirst(deletes, provisioning) ==
    (IF provisioning THEN <<"Provision">> ELSE <<>>)
        \o [i \in 1..Len(deletes) |-> "DeleteKey"]

\* The provider calls of a pass in the order the pass makes them: one
\* DeleteKey per key of deletes, then Provision when the pass renews.
ProviderCalls(deletes, provisioning) ==
    [i \in 1..Len(deletes) |-> "DeleteKey"]
        \o (IF provisioning THEN <<"Provision">> ELSE <<>>)

\* The log of a new pass: it remembers how the previous pass ended and how
\* many passes in a row have persisted a failure.
NewPass(branch, outcome) ==
    [NoPass EXCEPT !.branch = branch, !.outcome = outcome,
                   !.prevOutcome = IF pass.outcome \in {"blocked", "writeFailed", "ready",
                                                        "provisionFailed"}
                                   THEN pass.outcome ELSE "other",
                   !.finalizerAtStart = hasFinalizer,
                   !.failedRun = pass.failedRun]

Init ==
    /\ metrics = NoMetrics
    /\ retry = NoRetry
    /\ exists = TRUE
    /\ generation = 1
    /\ specValid \in BOOLEAN
    /\ deletionTimestamp = FALSE
    /\ hasFinalizer = FALSE
    /\ status = EmptyStatus
    /\ secret = NoSecret
    /\ now = 0
    /\ nextKey = 1
    /\ issued = {}
    /\ faults = MaxFaults
    /\ queued = TRUE
    /\ requeueAt = -1
    /\ pass = NoPass
    /\ quiet = TRUE

\* --------------------------------------------------------- host runtime
\* The work queue hands the request to Reconcile when it is queued or when
\* a delayed request has come due.
Triggered == queued \/ (requeueAt >= 0 /\ now >= requeueAt)

\* A host that does not retry a pass that returned an error.
HostAfterDroppingErrors(directive, wrote) ==
    LET pending == IF requeueAt > now THEN requeueAt ELSE -1
        due == now + directive.after
    IN  /\ queued' = (directive.kind = "requeue" \/ wrote)
        /\ requeueAt' = IF directive.kind = "requeueAfter"
                        THEN (IF pending = -1 THEN due ELSE Min(pending, due))
                        ELSE pending

\* The queue after a pass: an error or Requeue re-adds the request, a
\* RequeueAfter adds it with a delay, and a write to the resource or to the
\* owned Secret comes back as a watch event.
HostAfter(directive, wrote) ==
    LET pending == IF requeueAt > now THEN requeueAt ELSE -1
        due == now + directive.after
    IN  /\ queued' = (directive.kind \in {"error", "requeue"} \/ wrote)
        /\ requeueAt' = IF directive.kind = "requeueAfter"
                        THEN (IF pending = -1 THEN due ELSE Min(pending, due))
                        ELSE pending

\* A finalizer check that answers the opposite.
ContainsFinalizerInverted == ~hasFinalizer

\* A finalizer check that always answers yes.
ContainsFinalizerAlways == TRUE

\* controllerutil.ContainsFinalizer(obj, Finalizer)
ContainsFinalizer == hasFinalizer

\* A scheduleNext that always asks for an immediate requeue.
scheduleNextRequeueNow(s) == RequeueNow

\* Reconciler.scheduleNext
scheduleNext(s) ==
    IF RenewalDuration(s, now) > 0
    THEN Directive("requeueAfter", RenewalDuration(s, now), "", 0)
    ELSE RequeueNow

\* Reconciler.secretHasData
secretHasData(getOk) == getOk /\ secret.exists /\ secret.data # 0

\* A Secret write that takes no notice of who controls the Secret.
reconcileOutputSecretAnyOwner(who, writeOk) == writeOk

\* Reconciler.reconcileOutputSecret run for the resource who: it succeeds
\* unless the API call fails or SetControllerReference finds the Secret
\* controlled by another resource.
reconcileOutputSecretBy(who, writeOk) ==
    writeOk /\ ~(secret.exists /\ secret.owner # who)

\* Reconciler.reconcileOutputSecret succeeds unless the API call fails or
\* SetControllerReference finds another controller owning the Secret.
reconcileOutputSecret(writeOk) == reconcileOutputSecretBy("self", writeOk)

\* One injected failure is paid from the budget.
Pay(faulty) ==
    /\ faulty => faults > 0
    /\ faults' = IF faulty THEN faults - 1 ELSE faults


\* ---------------------------------------------------------- environment
\* The user edits the spec: the generation advances.
EditSpec ==
    /\ UNCHANGED auxVars
    /\ exists /\ ~deletionTimestamp
    /\ generation < MaxGeneration
    /\ generation' = generation + 1
    /\ specValid' \in BOOLEAN
    /\ queued' = TRUE
    /\ UNCHANGED <<exists, deletionTimestamp, hasFinalizer,
                   status, secret, now, nextKey, issued, faults, requeueAt, pass>>
    /\ quiet' = FALSE

\* The API server removes the object when its last finalizer goes: nothing
\* of the resource or of its status is stored any more.
Removed ==
    /\ exists' = FALSE
    /\ generation' = 1
    /\ specValid' = TRUE
    /\ deletionTimestamp' = FALSE
    /\ hasFinalizer' = FALSE
    /\ status' = EmptyStatus

\* The user deletes the resource: the API server sets the deletion
\* timestamp and keeps the object while a finalizer remains.
DeleteResource ==
    /\ UNCHANGED auxVars
    /\ exists /\ ~deletionTimestamp
    /\ deletionTimestamp' = TRUE
    /\ queued' = TRUE
    /\ UNCHANGED <<exists, generation, specValid, hasFinalizer, status,
                   secret, now, nextKey, issued, faults, requeueAt, pass>>
    /\ quiet' = FALSE

\* A resource deleted before the engine added its finalizer is held by
\* another controller's finalizer, and removed when that one goes.
Finalize ==
    /\ UNCHANGED auxVars
    /\ exists /\ deletionTimestamp /\ ~hasFinalizer
    /\ Removed
    /\ queued' = TRUE
    /\ UNCHANGED <<secret, now, nextKey, issued, faults, requeueAt, pass>>
    /\ quiet' = FALSE

\* The user removes the engine's finalizer by hand.
RemoveFinalizerManually ==
    /\ UNCHANGED auxVars
    /\ exists /\ deletionTimestamp /\ hasFinalizer
    /\ Removed
    /\ queued' = TRUE
    /\ UNCHANGED <<secret, now, nextKey, issued, faults, requeueAt, pass>>
    /\ quiet' = FALSE

Tick ==
    /\ UNCHANGED auxVars
    /\ now < MaxTime
    /\ now' = now + 1
    /\ UNCHANGED <<resourceVars, status, secret, nextKey, issued, faults,
                   queued, requeueAt, pass>>
    /\ quiet' = FALSE

\* Another resource that names the same Secret writes it: its own
\* reconcileOutputSecret succeeds when the Secret is not controlled by this
\* resource.
ForeignSecret ==
    /\ UNCHANGED auxVars
    /\ reconcileOutputSecretBy("other", TRUE)
    /\ secret' = [exists |-> TRUE, owner |-> "other", data |-> -1]
    /\ UNCHANGED <<resourceVars, status, now, nextKey, issued, faults,
                   queued, requeueAt, pass>>
    /\ quiet' = FALSE

\* Owner-reference garbage collection once the resource is gone.
GarbageCollect ==
    /\ UNCHANGED auxVars
    /\ ~exists /\ secret.exists /\ secret.owner = "self"
    /\ secret' = NoSecret
    /\ UNCHANGED <<resourceVars, status, now, nextKey, issued, faults,
                   queued, requeueAt, pass>>
    /\ quiet' = FALSE

\* ------------------------------------------------------------ Reconcile
\* An IgnoreNotFound that lets the not-found error through.
IgnoreNotFoundNever(err) == ErrorDirective(err)

\* What Reconcile returns for a failed r.Get: client.IgnoreNotFound turns
\* the not-found error into nil and passes every other error on.
IgnoreNotFound(err) ==
    IF err = "not found" THEN NoDirective ELSE ErrorDirective(err)

\* Reconcile, resource not found: client.IgnoreNotFound swallows the error.
ReconcileNotFound ==
    /\ UNCHANGED auxVars
    /\ Triggered
    /\ quiet' = TRUE
    /\ ~exists
    /\ UNCHANGED <<resourceVars, status, secret, now, nextKey, issued, faults>>
    /\ pass' = [NewPass("notfound", "notfound") EXCEPT
                    !.failedRun = 0,
                    !.directive = IgnoreNotFound("not found")]
    /\ HostAfter(IgnoreNotFound("not found"), FALSE)

\* Reconcile, r.Get fails with an error other than not-found: the error is
\* returned before anything else is done.
ReconcileGetFailed ==
    /\ UNCHANGED auxVars
    /\ Triggered
    /\ quiet' = TRUE
    /\ Pay(TRUE)
    /\ UNCHANGED <<resourceVars, status, secret, now, nextKey, issued>>
    /\ pass' = [NewPass("fetch", "getFailed") EXCEPT
                    !.faulty = TRUE,
                    !.apiErrors = {"resourceGet"},
                    !.directive = IgnoreNotFound("get failed")]
    /\ HostAfter(IgnoreNotFound("get failed"), FALSE)

\* Failure counts with the expiry test inverted, and with no expiry test.
ActiveFailuresExpiredOnly(keys, failed) ==
    Cardinality({i \in 1..Len(keys) :
                    keys[i].keyId \in failed /\ keys[i].expiresAt < now})

ActiveFailuresAll(keys, failed) ==
    Cardinality({i \in 1..Len(keys) : keys[i].keyId \in failed})

\* The number of failed DeleteKey calls on keys that are not yet expired.
ActiveFailures(keys, failed) ==
    Cardinality({i \in 1..Len(keys) :
                    keys[i].keyId \in failed /\ ~(keys[i].expiresAt < now)})

\* A blocked deletion that returns no error.
DeletionBlockedSilently(activeFailures) ==
    Directive("none", 0, "", activeFailures)

\* What handleDeletion returns when active keys failed to delete.
DeletionBlocked(activeFailures) ==
    Directive("error", 0, "failed to delete active key(s), will retry", activeFailures)

\* Reconciler.handleDeletion.  failed is the set of key ids for which
\* Provider.DeleteKey returns an error, updateOk the outcome of r.Update.
handleDeletion(failed, updateOk) ==
    LET keys == status.activeKeys
        calls == [i \in 1..Len(keys) |-> keys[i].keyId]
        activeFailures == ActiveFailures(keys, failed)
        outcome == IF ~ContainsFinalizer THEN "noFinalizer"
                   ELSE IF activeFailures > 0 THEN "blocked"
                   ELSE IF updateOk THEN "removed" ELSE "updateFailed"
        base == NewPass("deletion", outcome)
    IN
    IF ~ContainsFinalizer
    THEN /\ failed = {} /\ updateOk
         /\ pass' = base
         /\ HostAfter(NoDirective, FALSE)
         /\ UNCHANGED <<resourceVars, status, issued, faults>>
    ELSE IF activeFailures > 0
    THEN /\ updateOk
         /\ Pay(TRUE)
         /\ issued' = issued \ (KeyIds(keys) \ failed)
         /\ pass' = [base EXCEPT !.deleteCalls = calls,
                                 !.deleteOk = KeyIds(keys) \ failed,
                                 !.calls = ProviderCalls(calls, FALSE),
                                 !.faulty = TRUE,
                                 !.directive = DeletionBlocked(activeFailures)]
         /\ HostAfter(DeletionBlocked(activeFailures), FALSE)
         /\ UNCHANGED <<resourceVars, status>>
    ELSE /\ Pay(failed # {} \/ ~updateOk)
         /\ issued' = issued \ (KeyIds(keys) \ failed)
         /\ IF updateOk THEN Removed
            ELSE UNCHANGED <<resourceVars, status>>
         /\ pass' = [base EXCEPT !.deleteCalls = calls,
                                 !.deleteOk = KeyIds(keys) \ failed,
                                 !.calls = ProviderCalls(calls, FALSE),
                                 !.failedRun = IF updateOk THEN 0 ELSE @,
                                 !.resourceWrites = IF updateOk THEN 1 ELSE 0,
                                 !.finalizerRemoved = updateOk,
                                 !.faulty = (failed # {} \/ ~updateOk),
                                 !.apiErrors = IF updateOk THEN {}
                                               ELSE {"resourceUpdate"},
                                 !.directive = IF updateOk THEN NoDirective
                                               ELSE ErrorDirective("update failed")]
         /\ HostAfter(IF updateOk THEN NoDirective ELSE ErrorDirective("update failed"),
                      updateOk)


\* Reconcile, deletion branch.
ReconcileDeletion ==
    /\ UNCHANGED auxVars
    /\ Triggered
    /\ quiet' = TRUE
    /\ exists /\ deletionTimestamp
    /\ UNCHANGED <<secret, now, nextKey>>
    /\ \E failed \in SUBSET KeyIds(status.activeKeys), updateOk \in BOOLEAN :
          handleDeletion(failed, updateOk)

\* Reconcile, finalizer absent: add it, persist the resource, requeue.
ReconcileAddFinalizer ==
    /\ UNCHANGED auxVars
    /\ Triggered
    /\ quiet' = TRUE
    /\ exists /\ ~deletionTimestamp /\ ~ContainsFinalizer
    /\ UNCHANGED <<exists, generation, specValid, deletionTimestamp,
                   status, secret, now, nextKey, issued>>
    /\ \E updateOk \in BOOLEAN :
          /\ Pay(~updateOk)
          /\ hasFinalizer' = updateOk
          /\ pass' = [NewPass("finalizer", IF updateOk THEN "finalizerAdded"
                                                ELSE "updateFailed")
                             EXCEPT !.resourceWrites = IF updateOk THEN 1 ELSE 0,
                                    !.finalizerAdded = updateOk,
                                    !.faulty = ~updateOk,
                                    !.apiErrors = IF updateOk THEN {}
                                                  ELSE {"finalizerUpdate"},
                                    !.directive = IF updateOk THEN RequeueNow
                                                  ELSE ErrorDirective("adding finalizer")]
          /\ HostAfter(IF updateOk THEN RequeueNow
                       ELSE ErrorDirective("adding finalizer"), updateOk)

\* Reconcile, Validate fails: record the failure, do not retry.
ReconcileInvalid ==
    /\ UNCHANGED auxVars
    /\ Triggered
    /\ quiet' = TRUE
    /\ exists /\ ~deletionTimestamp /\ ContainsFinalizer /\ ~specValid
    /\ status.failureCount < MaxFailures
    /\ UNCHANGED <<resourceVars, secret, now, nextKey, issued>>
    /\ \E statusOk \in BOOLEAN :
          LET failedStatus == SetFailed(status, generation,
                                        "invalid config: validation failed", now)
              directive == IF statusOk THEN NoDirective
                           ELSE ErrorDirective("status update failed")
          IN  /\ Pay(~statusOk)
              /\ status' = IF statusOk THEN failedStatus ELSE status
              /\ pass' = [NewPass("invalid", "invalid") EXCEPT
                                        !.setFailed = TRUE,
                                        !.statusWrites = IF statusOk THEN 1 ELSE 0,
                                        !.persisted = statusOk,
                                        !.failedRun = IF statusOk THEN @ + 1 ELSE @,
                                        !.faulty = ~statusOk,
                                        !.apiErrors = IF statusOk THEN {}
                                                      ELSE {"statusUpdate"},
                                        !.directive = directive]
              /\ HostAfter(directive, statusOk)


\* A cleanup that takes a key expiring right now for expired.
handleCleanupEarly(failed) == DropExpired(status.activeKeys, now + 1, failed)

\* A cleanup that drops an expired key whether or not DeleteKey succeeded.
handleCleanupDroppingFailed(failed) == DropExpired(status.activeKeys, now, {})

\* Reconciler.handleCleanup: DropExpired with keep answering true for the
\* keys whose Provider.DeleteKey fails.
handleCleanup(failed) == DropExpired(status.activeKeys, now, failed)

\* Provider.Provision on success: a fresh credential, provisioned now.
ProvisionResult(emptyId, validity) ==
    [keyId |-> IF emptyId THEN 0 ELSE nextKey,
     stringData |-> nextKey,
     provisionedAt |-> now,
     validUntil |-> now + validity]

\* A failure path that also forgets which key is current.
failStatusForgettingKey(s, err, statusOk) ==
    [status |-> [SetFailed(s, generation, err, now) EXCEPT !.currentKeyID = 0],
     directive |-> IF statusOk THEN ErrorDirective(err)
                   ELSE ErrorDirective("status update failed")]

\* A failure path that returns the original error although the status
\* update failed.
failStatusUnpersisted(s, err, statusOk) ==
    [status |-> SetFailed(s, generation, err, now),
     directive |-> ErrorDirective(err)]

\* Reconciler.failStatus: the mutated status and what is returned.
failStatus(s, err, statusOk) ==
    [status |-> SetFailed(s, generation, err, now),
     directive |-> IF statusOk THEN ErrorDirective(err)
                   ELSE ErrorDirective("status update failed")]

\* Renewal steps with the Secret written ahead of Provision.
renewalStepsWriteFirst(provOk) == <<"WriteSecret", "Provision">>

\* The calls of Reconciler.handleRenewal in the order it makes them:
\* Provider.Provision, then reconcileOutputSecret when Provision succeeded.
renewalSteps(provOk) ==
    IF provOk THEN <<"Provision", "WriteSecret">> ELSE <<"Provision">>

\* How often a step occurs in a sequence of steps.
Times(steps, step) == Cardinality({i \in 1..Len(steps) : steps[i] = step})

\* A renewal that marks the status Ready before the Secret is written.
handleRenewalReadyFirst(s, provOk, result, secretOk, statusOk) ==
    IF ~provOk
    THEN failStatus(s, "provisioning failed: provider error", statusOk)
    ELSE IF ~secretOk
    THEN failStatus(SetReady(s, generation, result),
                    "output secret: write failed", statusOk)
    ELSE [status |-> SetReady(s, generation, result),
          directive |-> IF statusOk THEN scheduleNext(SetReady(s, generation, result))
                        ELSE ErrorDirective("status update failed")]

\* Reconciler.handleRenewal on the in-memory status s.
handleRenewal(s, provOk, result, secretOk, statusOk) ==
    IF ~provOk
    THEN failStatus(s, "provisioning failed: provider error", statusOk)
    ELSE IF ~secretOk
    THEN failStatus(s, "output secret: write failed", statusOk)
    ELSE [status |-> SetReady(s, generation, result),
          directive |-> IF statusOk THEN scheduleNext(SetReady(s, generation, result))
                        ELSE ErrorDirective("status update failed")]

\* The outcomes the environment may choose for a call: success, or
\* failure when the call is made at all.
Outcomes(called) == IF called THEN BOOLEAN ELSE {TRUE}

\* Reconcile on a valid resource that carries the finalizer: cleanup, the
\* renewal check, and renewal or scheduling.  failed holds the key ids whose
\* DeleteKey fails; the other parameters are the outcomes of the status
\* update after cleanup, the Secret fetch, Provision, the Secret write and
\* the final status update.
ReconcileMainWith(failed, cleanupOk, getOk, provOk, result, writeOk, statusOk) ==
    LET cleanup == handleCleanup(failed)
        offered == {cleanup.offered[i] : i \in 1..Len(cleanup.offered)}
        cleaned == [status EXCEPT !.activeKeys = cleanup.kept]
        cleanupWrite == Len(cleanup.dropped) > 0
        afterCleanup == IF cleanupWrite /\ cleanupOk THEN cleaned ELSE status
        needs == NeedsRenewal(cleaned, generation, secretHasData(getOk), now)
        secretOk == reconcileOutputSecret(writeOk)
        renewal == handleRenewal(cleaned, provOk, result, secretOk, statusOk)
        steps == IF needs THEN renewalSteps(provOk) ELSE <<>>
        provisioned == needs /\ provOk
        written == provisioned /\ secretOk
        directive == IF needs THEN renewal.directive ELSE scheduleNext(cleaned)
        faulty == \/ failed # {}
                  \/ ~cleanupOk
                  \/ ~getOk
                  \/ ~provOk
                  \/ ~writeOk
                  \/ ~statusOk
        apiErrors == (IF cleanupOk THEN {} ELSE {"cleanupStatusUpdate"})
                        \cup (IF getOk THEN {} ELSE {"secretGet"})
                        \cup (IF writeOk THEN {} ELSE {"secretWrite"})
                        \cup (IF statusOk THEN {} ELSE {"statusUpdate"})
    IN
    /\ Pay(faulty)
    /\ provisioned => nextKey <= MaxKeys
    /\ (needs /\ ~written) => status.failureCount < MaxFailures
    /\ nextKey' = IF provisioned THEN nextKey + 1 ELSE nextKey
    /\ status' = IF needs /\ statusOk THEN renewal.status ELSE afterCleanup
    /\ secret' = IF written
                 THEN [exists |-> TRUE, owner |-> "self", data |-> result.stringData]
                 ELSE secret
    /\ issued' = (issued \ (offered \ failed))
                    \cup (IF provisioned /\ result.keyId # 0 THEN {result.keyId} ELSE {})
    /\ pass' = [NewPass("main", IF ~needs THEN "noRenewal"
                                ELSE IF ~provOk THEN "provisionFailed"
                                ELSE IF ~secretOk THEN "writeFailed"
                                ELSE "ready")
                EXCEPT
                  !.provisionCalls = Times(steps, "Provision"),
                  !.provisionOk = provisioned,
                  !.result = IF provisioned THEN result ELSE NoResult,
                  !.deleteCalls = cleanup.offered,
                  !.deleteOk = offered \ failed,
                  !.calls = ProviderCalls(cleanup.offered, needs),
                  !.steps = steps,
                  !.secretWrites = Times(steps, "WriteSecret"),
                  !.secretWritten = written,
                  !.statusWrites = (IF cleanupWrite /\ cleanupOk THEN 1 ELSE 0)
                                    + (IF needs /\ statusOk THEN 1 ELSE 0),
                  !.setReady = written,
                  !.setFailed = needs /\ ~written,
                  !.persisted = needs /\ statusOk,
                  !.failedRun = IF needs /\ statusOk
                                THEN (IF written THEN 0 ELSE @ + 1)
                                ELSE @,
                  !.faulty = faulty,
                  !.apiErrors = apiErrors,
                  !.directive = directive]
    /\ HostAfter(directive, (cleanupWrite /\ cleanupOk) \/ (needs /\ statusOk) \/ written)

ReconcileMain ==
    /\ UNCHANGED auxVars
    /\ Triggered
    /\ quiet' = TRUE
    /\ exists /\ ~deletionTimestamp /\ ContainsFinalizer /\ specValid
    /\ UNCHANGED <<resourceVars, now>>
    /\ LET mayFail == handleCleanup({}).offered IN
       \E failed \in SUBSET {mayFail[i] : i \in 1..Len(mayFail)} :
       \E cleanupOk \in Outcomes(Len(handleCleanup(failed).dropped) > 0) :
       \E getOk \in Outcomes(secret.exists /\ secret.data # 0) :
          LET cleaned == [status EXCEPT !.activeKeys = handleCleanup(failed).kept]
              needs == NeedsRenewal(cleaned, generation, secretHasData(getOk), now)
          IN
          IF ~needs
          THEN ReconcileMainWith(failed, cleanupOk, getOk, TRUE, NoResult, TRUE, TRUE)
          ELSE \E provOk \in BOOLEAN, statusOk \in BOOLEAN :
                 IF ~provOk
                 THEN ReconcileMainWith(failed, cleanupOk, getOk, FALSE, NoResult,
                                        TRUE, statusOk)
                 ELSE \E emptyId \in BOOLEAN, validity \in Validities :
                      \E writeOk \in Outcomes(~(secret.exists /\ secret.owner = "other")) :
                         ReconcileMainWith(failed, cleanupOk, getOk, TRUE,
                                           ProvisionResult(emptyId, validity),
                                           writeOk, statusOk)

Reconcile ==
    \/ ReconcileNotFound
    \/ ReconcileDeletion
    \/ ReconcileAddFinalizer
    \/ ReconcileInvalid
    \/ ReconcileMain

Next ==
    \/ Reconcile
    \/ ReconcileGetFailed
    \/ EditSpec
    \/ DeleteResource
    \/ Finalize
    \/ RemoveFinalizerManually
    \/ Tick
    \/ ForeignSecret
    \/ GarbageCollect

Spec == Init /\ [][Next]_vars

TypeOK ==
    /\ exists \in BOOLEAN /\ generation \in 1..MaxGeneration
    /\ now \in 0..MaxTime /\ nextKey \in 1..(MaxKeys + 1)
    /\ faults \in 0..MaxFaults
    /\ status.failureCount \in 0..MaxFailures
    /\ requeueAt \in -1..(MaxTime + LongValidity)


\* A queued request is eventually handed to Reconcile.
LiveSpec == Spec /\ WF_vars(Reconcile)

\* ------------------------------------------------------------- rotation
\* A resource as its first successful pass at time 0 leaves it: Ready with
\* one key of some validity, the Secret written, the next check scheduled.
RotationValidities == 1..MaxValidity

FirstResult(validity) ==
    [keyId |-> 1, stringData |-> 1, provisionedAt |-> 0, validUntil |-> validity]

RotationInit ==
    /\ metrics = NoMetrics
    /\ retry = NoRetry
    /\ exists = TRUE
    /\ generation = 1
    /\ specValid = TRUE
    /\ deletionTimestamp = FALSE
    /\ hasFinalizer = TRUE
    /\ now = 0
    /\ \E validity \in RotationValidities :
          /\ status = SetReady(EmptyStatus, 1, FirstResult(validity))
          /\ pass = [NoPass EXCEPT !.branch = "main", !.outcome = "ready",
                                   !.finalizerAtStart = TRUE,
                                   !.provisionCalls = 1, !.provisionOk = TRUE,
                                   !.result = FirstResult(validity),
                                   !.secretWrites = 1, !.secretWritten = TRUE,
                                   !.statusWrites = 1, !.setReady = TRUE,
                                   !.persisted = TRUE,
                                   !.directive = scheduleNext(status)]
    /\ secret = [exists |-> TRUE, owner |-> "self", data |-> 1]
    /\ nextKey = 2
    /\ issued = {1}
    /\ faults = 0
    /\ queued = FALSE
    /\ requeueAt = now + pass.directive.after
    /\ quiet = TRUE

\* The delayed request fires exactly when its delay has run out.
RotationFire ==
    /\ UNCHANGED auxVars
    /\ exists /\ ~Triggered /\ requeueAt > now
    /\ now' = requeueAt
    /\ quiet' = FALSE
    /\ UNCHANGED <<resourceVars, status, secret, nextKey, issued, faults,
                   queued, requeueAt, pass>>

RotationNext == RotationFire \/ ReconcileMain

RotationSpec == RotationInit /\ [][RotationNext]_vars

\* ------------------------------------------- key set and status algebra
\* The operations of ActiveKey, ActiveKeys and ClientSecretStatus called
\* once each on a status whose key list, failure history and clock are
\* chosen freely.
\*
\* Key lifetimes: none, shorter than ten ticks, two that put the renewal
\* window at a tenth of the lifetime, and one long enough for the window to
\* be capped at RenewalThreshold.
CappedExpiry == 10 * RenewalThreshold + 40

KeyShapes ==
    { [createdAt |-> 0, expiresAt |-> 0],
      [createdAt |-> 0, expiresAt |-> 5],
      [createdAt |-> 0, expiresAt |-> 20],
      [createdAt |-> 1, expiresAt |-> 21],
      [createdAt |-> 0, expiresAt |-> CappedExpiry] }

\* Clock readings at, before and after the expiries and the starts of the
\* renewal windows of those keys.
TypesTimes ==
    {0, 5, 18, 19, 20,
     CappedExpiry - RenewalThreshold, CappedExpiry - RenewalThreshold + 1}

\* Key lists of up to MaxLen keys; the key at position i has id i.
KeyLists ==
    UNION { { [i \in 1..n |-> [keyId |-> i,
                               createdAt |-> shape[i].createdAt,
                               expiresAt |-> shape[i].expiresAt]] :
                shape \in [1..n -> KeyShapes] } : n \in 0..MaxLen }

\* What Provision may hand to SetReady: an id not in the list or the empty
\* id, provisioned now.
TypesResults ==
    { [keyId |-> id, stringData |-> MaxLen + 1,
       provisionedAt |-> now, validUntil |-> now + validity] :
          id \in {0, MaxLen + 1}, validity \in {0, 20} }

TypesInit ==
    /\ metrics = NoMetrics
    /\ retry = NoRetry
    /\ exists = TRUE
    /\ generation = 1
    /\ specValid = TRUE
    /\ deletionTimestamp = FALSE
    /\ hasFinalizer = TRUE
    /\ now \in TypesTimes
    /\ \E keys \in KeyLists, failedBefore \in BOOLEAN :
          LET ready == [EmptyStatus EXCEPT
                            !.observedGeneration = 1,
                            !.phase = IF Len(keys) = 0 THEN "" ELSE PhaseReady,
                            !.currentKeyID = Len(keys),
                            !.activeKeys = keys]
          IN  status = IF failedBefore
                       THEN SetFailed(ready, 1, "provisioning failed: provider error", 0)
                       ELSE ready
    /\ secret = NoSecret
    /\ nextKey = MaxLen + 1
    /\ issued = KeyIds(status.activeKeys)
    /\ faults = 0
    /\ queued = FALSE
    /\ requeueAt = -1
    /\ pass = NoPass
    /\ quiet = TRUE

\* The log of a call made on the current status.
Called(op, args, answer) ==
    [NoPass EXCEPT !.call = [op |-> op, on |-> status, args |-> args,
                             answer |-> answer]]

typesFixed == <<resourceVars, secret, now, nextKey, issued, faults, queued,
                requeueAt, quiet, auxVars>>

CallNewest ==
    /\ pass.call.op = "none"
    /\ pass' = Called("Newest", <<>>, Newest(status.activeKeys))
    /\ UNCHANGED <<status, typesFixed>>

CallNearExpiry ==
    /\ pass.call.op = "none"
    /\ \E i \in 1..Len(status.activeKeys) :
          pass' = Called("NearExpiry", [index |-> i],
                         NearExpiry(status.activeKeys[i], now))
    /\ UNCHANGED <<status, typesFixed>>

CallNeedsRenewal ==
    /\ pass.call.op = "none"
    /\ \E currentGeneration \in 1..2, hasData \in BOOLEAN :
          pass' = Called("NeedsRenewal",
                         [generation |-> currentGeneration, secretHasData |-> hasData],
                         NeedsRenewal(status, currentGeneration, hasData, now))
    /\ UNCHANGED <<status, typesFixed>>

CallRenewalDuration ==
    /\ pass.call.op = "none"
    /\ pass' = Called("RenewalDuration", <<>>, RenewalDuration(status, now))
    /\ UNCHANGED <<status, typesFixed>>

CallScheduleNext ==
    /\ pass.call.op = "none"
    /\ pass' = Called("scheduleNext", <<>>, scheduleNext(status))
    /\ UNCHANGED <<status, typesFixed>>

\* DropExpired with a keep callback that answers true for the ids of keep:
\* the list is changed in place, the dropped keys are returned.
CallDropExpired ==
    /\ pass.call.op = "none"
    /\ \E keep \in SUBSET KeyIds(status.activeKeys) :
          LET dropExpired == DropExpired(status.activeKeys, now, keep)
          IN  /\ status' = [status EXCEPT !.activeKeys = dropExpired.kept]
              /\ pass' = Called("DropExpired", [keep |-> keep], dropExpired)
    /\ UNCHANGED typesFixed

CallSetReady ==
    /\ pass.call.op = "none"
    /\ \E currentGeneration \in 1..2, result \in TypesResults :
          /\ status' = SetReady(status, currentGeneration, result)
          /\ pass' = Called("SetReady",
                            [generation |-> currentGeneration, result |-> result],
                            status')
    /\ UNCHANGED typesFixed

TypesNext ==
    \/ CallNewest
    \/ CallNearExpiry
    \/ CallNeedsRenewal
    \/ CallRenewalDuration
    \/ CallScheduleNext
    \/ CallDropExpired
    \/ CallSetReady

TypesSpec == TypesInit /\ [][TypesNext]_vars

\* ------------------------------------------------- status call sequences
\* SetReady and SetFailed called in any order on a status that starts
\* empty, as the unit tests of the status do, with the clock moving between
\* the calls.  pass.failedRun counts the SetFailed calls made since the
\* status last had failureCount 0.
StatusErrors == {"provisioning failed: provider error",
                 "reconciling secret: conflict"}

StatusInit ==
    /\ metrics = NoMetrics
    /\ retry = NoRetry
    /\ exists = TRUE
    /\ generation = 1
    /\ specValid = TRUE
    /\ deletionTimestamp = FALSE
    /\ hasFinalizer = TRUE
    /\ now = 0
    /\ status = EmptyStatus
    /\ secret = NoSecret
    /\ nextKey = 1
    /\ issued = {}
    /\ faults = 0
    /\ queued = FALSE
    /\ requeueAt = -1
    /\ pass = NoPass
    /\ quiet = TRUE

statusFixed == <<resourceVars, secret, nextKey, issued, faults, queued,
                 requeueAt, quiet, auxVars>>

StatusSetReady ==
    /\ \E currentGeneration \in 1..MaxGeneration, emptyId \in BOOLEAN :
          LET result == [keyId |-> IF emptyId THEN 0
                                   ELSE Len(status.activeKeys) + 1,
                         stringData |-> Len(status.activeKeys) + 1,
                         provisionedAt |-> now,
                         validUntil |-> now + LongValidity]
          IN  /\ emptyId \/ Len(status.activeKeys) < MaxLen
              /\ status' = SetReady(status, currentGeneration, result)
              /\ pass' = [Called("SetReady",
                                 [generation |-> currentGeneration,
                                  result |-> result], status')
                             EXCEPT !.failedRun = 0]
    /\ UNCHANGED <<now, statusFixed>>

StatusSetFailed ==
    /\ status.failureCount < MaxRun
    /\ \E currentGeneration \in 1..MaxGeneration, err \in StatusErrors :
          /\ status' = SetFailed(status, currentGeneration, err, now)
          /\ pass' = [Called("SetFailed",
                             [generation |-> currentGeneration, err |-> err,
                              now |-> now], status')
                         EXCEPT !.failedRun = pass.failedRun + 1]
    /\ UNCHANGED <<now, statusFixed>>

StatusTick ==
    /\ now < MaxTime
    /\ now' = now + 1
    /\ UNCHANGED <<status, pass, statusFixed>>

StatusNext == StatusSetReady \/ StatusSetFailed \/ StatusTick

StatusSpec == StatusInit /\ [][StatusNext]_vars

\* -------------------------------------------------- instrumented provider
\* The InstrumentedProvider around the mock provider, called as its tests
\* call it: Provision and DeleteKey in any order, on objects whose spec tells
\* the mock which calls to fail.
engineVars == <<resourceVars, status, secret, now, nextKey, issued, faults,
                queued, requeueAt, pass, quiet>>

MockObjects == [shouldFailProvision : BOOLEAN, shouldFailDeleteKey : BOOLEAN]

\* The mock provider's Provision; serial stands for the fresh uuid.
mockProvision(obj, serial) ==
    IF obj.shouldFailProvision
    THEN [result |-> NoResult, err |-> "mock provider failure"]
    ELSE [result |-> [keyId |-> serial, stringData |-> serial,
                      provisionedAt |-> now, validUntil |-> now + LongValidity],
          err |-> NilError]

\* The mock provider's DeleteKey.
mockDeleteKey(obj, keyID) ==
    IF obj.shouldFailDeleteKey THEN "mock delete key failure" ELSE NilError

\* A label that does not look at the error.
resultLabelAlwaysSuccess(err) == "success"

\* resultLabel
resultLabel(err) == IF err # NilError THEN "error" ELSE "success"

\* The record of one provider call: its arguments and what it returned.
ProviderCall(op, obj, keyID, result, err) ==
    [op |-> op, obj |-> obj, keyID |-> keyID, result |-> result, err |-> err]

InstrumentedInit ==
    /\ metrics = NoMetrics
    /\ retry = NoRetry
    /\ exists = TRUE
    /\ generation = 1
    /\ specValid = TRUE
    /\ deletionTimestamp = FALSE
    /\ hasFinalizer = TRUE
    /\ status = EmptyStatus
    /\ secret = NoSecret
    /\ now = 0
    /\ nextKey = 1
    /\ issued = {}
    /\ faults = 0
    /\ queued = FALSE
    /\ requeueAt = -1
    /\ pass = NoPass
    /\ quiet = TRUE

\* InstrumentedProvider.Provision: one call of the inner Provision, the
\* counter of its label incremented, its result and error returned.
InstrumentedProvision ==
    /\ Len(metrics.outer) < MaxCalls
    /\ \E obj \in MockObjects :
          LET answer == mockProvision(obj, Len(metrics.inner) + 1)
              label == resultLabel(answer.err)
          IN  metrics' =
                [metrics EXCEPT
                   !.inner = Append(@, ProviderCall("Provision", obj, 0,
                                                    answer.result, answer.err)),
                   !.ProvisionTotal[label] = @ + 1,
                   !.outer = Append(@, ProviderCall("Provision", obj, 0,
                                                    answer.result, answer.err))]
    /\ UNCHANGED <<retry, engineVars>>

\* InstrumentedProvider.DeleteKey: the same around the inner DeleteKey.
InstrumentedDeleteKey ==
    /\ Len(metrics.outer) < MaxCalls
    /\ \E obj \in MockObjects, keyID \in 1..MaxKeys :
          LET err == mockDeleteKey(obj, keyID)
              label == resultLabel(err)
          IN  metrics' =
                [metrics EXCEPT
                   !.inner = Append(@, ProviderCall("DeleteKey", obj, keyID,
                                                    NoResult, err)),
                   !.DeleteKeyTotal[label] = @ + 1,
                   !.outer = Append(@, ProviderCall("DeleteKey", obj, keyID,
                                                    NoResult, err))]
    /\ UNCHANGED <<retry, engineVars>>

InstrumentedNext == InstrumentedProvision \/ InstrumentedDeleteKey

InstrumentedSpec == InstrumentedInit /\ [][InstrumentedNext]_vars

\* ------------------------------------------------------- Azure withRetry
\* Error messages are sequences of characters, so that ToLower and Contains
\* work on them as strings.ToLower and strings.Contains do.
UpperCase == <<"A", "B", "C", "D", "E", "F", "G", "H", "I", "J", "K", "L", "M", "N", "O", "P", "Q", "R", "S", "T", "U", "V", "W", "X", "Y", "Z">>
LowerCase == <<"a", "b", "c", "d", "e", "f", "g", "h", "i", "j", "k", "l", "m", "n", "o", "p", "q", "r", "s", "t", "u", "v", "w", "x", "y", "z">>

ToLower(msg) ==
    [i \in 1..Len(msg) |->
        IF \E n \in 1..Len(UpperCase) : UpperCase[n] = msg[i]
        THEN LowerCase[CHOOSE n \in 1..Len(UpperCase) : UpperCase[n] = msg[i]]
        ELSE msg[i]]

Contains(msg, sub) ==
    \E i \in 1..(Len(msg) - Len(sub) + 1) : SubSeq(msg, i, i + Len(sub) - 1) = sub

\* A classification that takes every error for a rate-limit error.
isRateLimitErrorAnyError(err) == err # NoErr

\* isRateLimitError
isRateLimitError(err) ==
    /\ err # NoErr
    /\ LET msg == ToLower(err) IN
       \/ Contains(msg, <<"c", "o", "n", "c", "u", "r", "r", "e", "n", "t">>)
       \/ Contains(msg, <<"t", "h", "r", "o", "t", "t", "l">>)
       \/ Contains(msg, <<"r", "a", "t", "e", " ", "l", "i", "m", "i", "t">>)
       \/ Contains(msg, <<"t", "o", "o", " ", "m", "a", "n", "y", " ", "r", "e", "q", "u", "e", "s", "t", "s">>)
       \/ Contains(msg, <<"s", "t", "a", "t", "u", "s", " ", "4", "2", "9">>)

\* Errors fn may return: three the Graph API sends when it limits the rate,
\* and two others.
TooManyRequests == <<"T", "o", "o", " ", "M", "a", "n", "y", " ", "R", "e", "q", "u", "e", "s", "t", "s">>
Status429 == <<"g", "r", "a", "p", "h", " ", "A", "P", "I", " ", "e", "r", "r", "o", "r", " ", "(", "s", "t", "a", "t", "u", "s", " ", "4", "2", "9", ")">>
Throttled == <<"r", "e", "q", "u", "e", "s", "t", " ", "w", "a", "s", " ", "t", "h", "r", "o", "t", "t", "l", "e", "d">>
PermanentError == <<"p", "e", "r", "m", "a", "n", "e", "n", "t", " ", "e", "r", "r", "o", "r">>
Status404 == <<"g", "r", "a", "p", "h", " ", "A", "P", "I", " ", "e", "r", "r", "o", "r", " ", "(", "s", "t", "a", "t", "u", "s", " ", "4", "0", "4", ")">>

RateLimitErrors == {TooManyRequests, Status429, Throttled}

FnErrors == RateLimitErrors \cup {PermanentError, Status404, NoErr}

RetryInit ==
    /\ metrics = NoMetrics
    /\ retry = NoRetry
    /\ exists = TRUE
    /\ generation = 1
    /\ specValid = TRUE
    /\ deletionTimestamp = FALSE
    /\ hasFinalizer = TRUE
    /\ status = EmptyStatus
    /\ secret = NoSecret
    /\ now = 0
    /\ nextKey = 1
    /\ issued = {}
    /\ faults = 0
    /\ queued = FALSE
    /\ requeueAt = -1
    /\ pass = NoPass
    /\ quiet = TRUE

\* One iteration of withRetry's loop: fn is invoked; its answer is returned
\* unless it is a rate-limit error, after which the loop sleeps (but not
\* after the last attempt) and goes on.
RetryAttempt ==
    /\ ~retry.returned
    /\ retry.attempt < maxRetries + 1
    /\ \E err \in FnErrors :
          retry' =
            IF err = NoErr \/ ~isRateLimitError(err)
            THEN [retry EXCEPT !.invocations = Append(@, err),
                               !.err = err,
                               !.returned = TRUE]
            ELSE [retry EXCEPT !.invocations = Append(@, err),
                               !.err = err,
                               !.sleeps = IF retry.attempt < maxRetries
                                          THEN @ + 1 ELSE @,
                               !.attempt = @ + 1]
    /\ UNCHANGED <<metrics, engineVars>>

\* The loop has run maxRetries + 1 times: the last error is returned.
RetryExhausted ==
    /\ ~retry.returned
    /\ retry.attempt = maxRetries + 1
    /\ retry' = [retry EXCEPT !.returned = TRUE]
    /\ UNCHANGED <<metrics, engineVars>>

RetryNext == RetryAttempt \/ RetryExhausted

\* fn returns every time it is invoked, so the loop goes on until it ends.
RetrySpec == RetryInit /\ [][RetryNext]_vars /\ WF_vars(RetryNext)

\* ================================================================ claims
Ids(keys) == [i \in 1..Len(keys) |-> keys[i].keyId]

NoDuplicates(seq) == \A i, j \in 1..Len(seq) : seq[i] = seq[j] => i = j

NonExpiredIds(keys) ==
    {keys[i].keyId : i \in {j \in 1..Len(keys) : ~(keys[j].expiresAt < now)}}

ExpiredIdSeq(keys) ==
    Ids(SelectSeq(keys, LAMBDA k : k.expiresAt < now))

NewestKeyId(keys) == IF Newest(keys) = 0 THEN 0 ELSE keys[Newest(keys)].keyId

\* C1: a pass calls Provider.Provision or writes the output Secret only when
\* the resource it fetched carries the finalizer; the pass that adds the
\* finalizer makes no provider call, writes neither status nor Secret, and
\* returns requeue-now.
C1_FinalizerBeforeProvision ==
    [][Reconcile =>
        /\ (pass'.provisionCalls > 0 \/ pass'.secretWrites > 0
              \/ nextKey' # nextKey \/ secret' # secret)
             => (exists /\ hasFinalizer)
        /\ (~hasFinalizer /\ hasFinalizer')
             => /\ pass'.provisionCalls = 0
                /\ pass'.deleteCalls = <<>>
                /\ nextKey' = nextKey /\ issued' = issued
                /\ status' = status /\ secret' = secret
                /\ pass'.directive = RequeueNow]_vars

C1_Witness == pass.provisionOk /\ pass.secretWritten /\ hasFinalizer

\* C2: every non-empty key id returned by a successful Provision is in the
\* persisted status.activeKeys unless a DeleteKey call for it has succeeded.
C2_ActiveKeysRecordIssued ==
    exists => issued \subseteq KeyIds(status.activeKeys)

\* C3: in the deletion branch the finalizer is removed only when DeleteKey
\* succeeded for every non-expired key; otherwise the pass returns an error
\* naming the number of such failures and leaves finalizer, resource and
\* Secret in place.
C3_DeletionBlockedByActiveKey ==
    [][(Reconcile /\ exists /\ deletionTimestamp /\ hasFinalizer) =>
        LET nonExpired == NonExpiredIds(status.activeKeys)
            failures == nonExpired \ pass'.deleteOk
        IN  /\ ~hasFinalizer' => failures = {}
            /\ failures # {} =>
                 /\ pass'.directive.kind = "error"
                 /\ pass'.directive.count = Cardinality(failures)
                 /\ hasFinalizer' /\ exists' /\ secret' = secret]_vars

C3_Witness ==
    /\ pass.outcome = "blocked" /\ pass.directive.count > 0
    /\ exists /\ hasFinalizer /\ secret.exists

\* C4: in the deletion branch, when every DeleteKey failure concerns an
\* expired key, the pass has called DeleteKey for every key in activeKeys
\* and goes on to remove the finalizer and persist the resource.
C4_ExpiredFailureTolerated ==
    [][(Reconcile /\ exists /\ deletionTimestamp /\ hasFinalizer) =>
        LET keys == status.activeKeys
            failures == KeyIds(keys) \ pass'.deleteOk
        IN  (failures # {} /\ failures \cap NonExpiredIds(keys) = {}) =>
                 /\ pass'.deleteCalls = Ids(keys)
                 /\ pass'.outcome \in {"removed", "updateFailed"}
                 /\ pass'.outcome = "removed" =>
                        (~hasFinalizer' /\ pass'.resourceWrites = 1)]_vars

C4_Witness ==
    /\ pass.outcome = "removed" /\ ~hasFinalizer
    /\ \E i \in 1..Len(pass.deleteCalls) : pass.deleteCalls[i] \notin pass.deleteOk

\* C5: a resource with a deletion timestamp and the finalizer is reconciled
\* again after every blocked pass, so that once the provider's failures
\* cease the finalizer is removed.
C5_DeletionEventuallyCompletes ==
    (exists /\ deletionTimestamp /\ hasFinalizer) ~> ~(exists /\ hasFinalizer)

C5_Witness ==
    pass.outcome = "removed" /\ pass.prevOutcome = "blocked" /\ ~hasFinalizer

C7_ReadyInvariant ==
    [][(Reconcile /\ pass'.setReady /\ pass'.persisted) =>
        /\ secret'.exists /\ secret'.data # 0 /\ secret'.owner = "self"
        /\ status'.phase = PhaseReady
        /\ status'.currentKeyID = NewestKeyId(status'.activeKeys)]_vars

\* C8: status.observedGeneration never exceeds metadata.generation and
\* changes only in a pass that sets the status Ready.
C8_ObservedGeneration ==
    [][/\ status.observedGeneration <= generation
       /\ status'.observedGeneration <= generation'
       /\ (exists' /\ status'.observedGeneration # status.observedGeneration)
            => /\ Reconcile
               /\ pass'.setReady /\ pass'.persisted
               /\ status'.phase = PhaseReady
               /\ status'.observedGeneration = generation]_vars

C8_Witness ==
    /\ status.observedGeneration > 1
    /\ status.phase = PhaseReady

\* C9 as stated: failureCount is zero exactly when the last pass left the
\* status Ready.
C9_ZeroIffLastPassReady ==
    (exists /\ pass.branch # "none") =>
        (status.failureCount = 0 <=> status.phase = PhaseReady)

\* C9 amended: failureCount is zero exactly when the phase is not Failed,
\* and it is the number of passes that persisted a failure since the last
\* pass that persisted Ready.
C9_FailureCount ==
    exists =>
        /\ status.failureCount = 0 <=> status.phase # PhaseFailed
        /\ status.failureCount = pass.failedRun

C9_Witness ==
    /\ status.failureCount >= 2 /\ status.phase = PhaseFailed

\* C10: within one pass DeleteKey is called at most once per key id: the
\* deletion branch calls it once per activeKeys entry, any other pass once
\* per expired entry and never for an entry that is not expired.
C10_DeleteKeyOncePerPass ==
    [][Reconcile =>
        /\ NoDuplicates(pass'.deleteCalls)
        /\ (exists /\ deletionTimestamp /\ hasFinalizer)
             => pass'.deleteCalls = Ids(status.activeKeys)
        /\ ~(exists /\ deletionTimestamp /\ hasFinalizer)
             => pass'.deleteCalls =
                  (IF exists /\ ~deletionTimestamp /\ hasFinalizer /\ specValid
                   THEN ExpiredIdSeq(status.activeKeys) ELSE <<>>)]_vars

C10_Witness ==
    /\ pass.branch = "main" /\ Len(pass.deleteCalls) = 1
    /\ ~pass.provisionOk /\ Len(status.activeKeys) >= 1
    /\ pass.deleteCalls[1] \notin KeyIds(status.activeKeys)

\* C11 as stated: a pass that follows another pass with no external change
\* between them (same spec and generation, same Secret, same time, no
\* injected failure in either) leaves the persisted status as the first
\* pass left it.
C11_SameStatusAfterSecondPass ==
    [][(/\ Reconcile
        /\ quiet /\ exists /\ pass.branch # "none"
        /\ ~pass.faulty /\ ~pass'.faulty)
       => status' = status]_vars

\* C11 amended: a pass that follows, with no external change and no
\* injected failure in either pass, a pass that came through cleanup and
\* renewal without an error (it needed no renewal, or persisted Ready with a
\* tracked key that is not yet expired) calls the provider for nothing, writes nothing and leaves the
\* persisted status and the Secret as they were.
C11_SteadyAfterSuccess ==
    [][(/\ Reconcile
        /\ quiet /\ exists /\ pass.branch = "main"
        /\ ~pass.faulty /\ ~pass'.faulty
        /\ pass.directive.kind # "error"
        /\ pass.provisionOk => /\ pass.result.keyId # 0
                                /\ ~(pass.result.validUntil < now))
       => /\ status' = status
          /\ secret' = secret
          /\ pass'.provisionCalls = 0
          /\ pass'.deleteCalls = <<>>
          /\ pass'.statusWrites = 0
          /\ pass'.directive = pass.directive]_vars

C11_Witness ==
    /\ pass.outcome = "noRenewal" /\ pass.prevOutcome = "ready"
    /\ status.phase = PhaseReady
    /\ Len(status.activeKeys) > 0
    /\ status.activeKeys[Len(status.activeKeys)].createdAt = now
    /\ quiet

\* C12: when Validate fails on a resource that has the finalizer and no
\* deletion timestamp, the pass persists phase Failed with the message
\* "invalid config: ...", calls neither Provision nor DeleteKey, leaves the
\* Secret alone and returns neither requeue nor error; and no pass follows it
\* until something outside the engine changes.
C12_ValidationFailureNoRetry ==
    [][/\ (/\ Reconcile
           /\ exists /\ ~deletionTimestamp /\ hasFinalizer /\ ~specValid
           /\ pass'.persisted)
          => /\ status'.phase = PhaseFailed
             /\ status'.lastFailureMessage = "invalid config: validation failed"
             /\ pass'.provisionCalls = 0 /\ pass'.deleteCalls = <<>>
             /\ pass'.secretWrites = 0 /\ secret' = secret
             /\ pass'.directive = NoDirective
       /\ (/\ exists /\ pass.branch = "invalid" /\ pass.persisted
           /\ pass.directive = NoDirective
           /\ quiet)
          => ~Reconcile]_vars

\* The pass took the renewal path, Provision or the Secret write failed, and
\* the status update of the failure path succeeded.
RenewalFailedStep ==
    /\ Reconcile
    /\ pass'.branch = "main" /\ pass'.provisionCalls = 1
    /\ ~pass'.secretWritten
    /\ pass'.persisted

\* What a failed renewal leaves apart from activeKeys: no Secret write when
\* Provision failed, phase Failed, one more failure, the message of the
\* failing call, the same currentKeyID and observedGeneration, and the error
\* returned to the host.
RenewalFailureRecorded ==
    LET msg == IF pass'.provisionOk THEN "output secret: write failed"
               ELSE "provisioning failed: provider error"
    IN  /\ ~pass'.provisionOk => pass'.secretWrites = 0
        /\ secret' = secret
        /\ status'.phase = PhaseFailed
        /\ status'.failureCount = status.failureCount + 1
        /\ status'.lastFailureMessage = msg
        /\ status'.currentKeyID = status.currentKeyID
        /\ status'.observedGeneration = status.observedGeneration
        /\ pass'.directive = ErrorDirective(msg)

ReadyAsProvisioned ==
    /\ exists /\ status.phase = PhaseReady
    /\ status.failureCount = 0
    /\ status.observedGeneration = generation
    /\ pass.setReady /\ pass.persisted
    /\ secret.exists /\ secret.owner = "self"
    /\ secret.data = pass.result.stringData
    /\ status.currentKeyID = pass.result.keyId

\* C14: a newly created resource with a valid spec eventually becomes Ready
\* with failureCount 0, the generation observed, the Secret written with the
\* provider's data and the provisioned key current, also after failed
\* attempts, unless it is deleted, its spec is edited to an invalid one or
\* another resource owns the Secret it names.
C14_EventuallyReady ==
    (exists /\ ~deletionTimestamp /\ specValid /\ pass.branch = "none")
      ~> (\/ ReadyAsProvisioned
          \/ ~exists \/ deletionTimestamp \/ ~specValid
          \/ (secret.exists /\ secret.owner = "other"))

C14_Witness ==
    /\ ReadyAsProvisioned
    /\ pass.prevOutcome = "provisionFailed"
    /\ ~deletionTimestamp /\ specValid

\* The renewal window of a key: min(validity / 10, RenewalThreshold).
RenewalWindow(k) == Min(GoDiv(k.expiresAt - k.createdAt, 10), RenewalThreshold)

NewestKey == status.activeKeys[Newest(status.activeKeys)]

\* The newest key has not reached its expiry, and a pass is due or
\* scheduled before it does.
RotationAhead ==
    /\ now < NewestKey.expiresAt
    /\ Triggered \/ (requeueAt > now /\ requeueAt < NewestKey.expiresAt)

CleanupStep ==
    /\ Reconcile
    /\ exists /\ ~deletionTimestamp /\ hasFinalizer /\ specValid

ExpiredIds(keys) == KeyIds(keys) \ NonExpiredIds(keys)

\* C16: the cleanup step calls DeleteKey for every expired key of
\* activeKeys; a key whose call succeeds is gone from activeKeys once the
\* pass has persisted the status, a key whose call fails is retained, a key
\* that is not expired is never removed, and a failing DeleteKey does not
\* abort the pass, which goes on to the renewal check.
C16_CleanupRetainsFailed ==
    [][CleanupStep =>
        LET keys == status.activeKeys
            deleted == pass'.deleteOk
            failing == ExpiredIds(keys) \ deleted
            cleaned == [status EXCEPT !.activeKeys =
                           SelectSeq(keys, LAMBDA k : k.keyId \notin deleted)]
        IN  /\ pass'.deleteCalls = ExpiredIdSeq(keys)
            /\ deleted \subseteq ExpiredIds(keys)
            /\ NonExpiredIds(keys) \subseteq KeyIds(status'.activeKeys)
            /\ failing \subseteq KeyIds(status'.activeKeys)
            /\ pass'.statusWrites > 0 => deleted \cap KeyIds(status'.activeKeys) = {}
            /\ failing # {} =>
                  /\ pass'.outcome \in {"noRenewal", "ready", "provisionFailed",
                                        "writeFailed"}
                  /\ pass'.outcome = "noRenewal" => pass'.directive.kind # "error"
                  /\ NeedsRenewal(cleaned, generation, secretHasData(TRUE), now)
                        => pass'.provisionCalls = 1]_vars

C16_Witness ==
    /\ pass.branch = "main" /\ pass.outcome = "noRenewal"
    /\ pass.directive.kind = "requeueAfter"
    /\ \E i \in 1..Len(pass.deleteCalls) :
          /\ pass.deleteCalls[i] \notin pass.deleteOk
          /\ pass.deleteCalls[i] \in KeyIds(status.activeKeys)

\* C17: within one pass every cleanup DeleteKey call precedes the Provision
\* call; so when the only active key k1 is expired and DeleteKey(k1)
\* succeeds, the same pass calls Provision on the emptied list and, when
\* Provision, the Secret write and the status update succeed, ends with
\* activeKeys = [k2], currentKeyID = k2 and the Secret holding k2's data.
C17_CleanupBeforeProvision ==
    [][Reconcile =>
        /\ \A i, j \in 1..Len(pass'.calls) :
              (pass'.calls[i] = "Provision" /\ pass'.calls[j] = "DeleteKey") => j < i
        /\ (/\ CleanupStep
            /\ Len(status.activeKeys) = 1
            /\ status.activeKeys[1].expiresAt < now
            /\ status.activeKeys[1].keyId \in pass'.deleteOk)
           => /\ pass'.calls = <<"DeleteKey", "Provision">>
              /\ (/\ pass'.provisionOk /\ pass'.result.keyId # 0
                  /\ pass'.secretWritten /\ pass'.persisted)
                 => /\ status'.activeKeys =
                          <<[keyId |-> pass'.result.keyId,
                             createdAt |-> pass'.result.provisionedAt,
                             expiresAt |-> pass'.result.validUntil]>>
                    /\ status'.currentKeyID = pass'.result.keyId
                    /\ pass'.result.keyId \notin KeyIds(status.activeKeys)
                    /\ secret'.data = pass'.result.stringData]_vars

C17_Witness ==
    /\ pass.calls = <<"DeleteKey", "Provision">>
    /\ pass.deleteOk = {1} /\ pass.result.keyId = 2
    /\ Len(status.activeKeys) = 1
    /\ status.activeKeys[1].keyId = 2 /\ status.currentKeyID = 2
    /\ secret.data = 2 /\ status.phase = PhaseReady

\* C18: when the generation has changed on a Ready resource with one
\* unexpired key k1, the next pass calls Provision without calling DeleteKey
\* and, when the renewal succeeds, rewrites the Secret, observes the new
\* generation and ends with activeKeys = [k1, k2]; a key leaves activeKeys
\* only through the cleanup step of a pass that finds it expired and deletes
\* it at the provider.
C18_GenerationChangeRotates ==
    [][/\ (/\ CleanupStep
           /\ status.phase = PhaseReady
           /\ Len(status.activeKeys) = 1
           /\ ~(status.activeKeys[1].expiresAt < now)
           /\ status.observedGeneration # generation)
          => /\ pass'.provisionCalls = 1
             /\ pass'.deleteCalls = <<>>
             /\ (/\ pass'.provisionOk /\ pass'.result.keyId # 0
                 /\ pass'.secretWritten /\ pass'.persisted)
                => /\ status'.activeKeys =
                         Append(status.activeKeys,
                                [keyId |-> pass'.result.keyId,
                                 createdAt |-> pass'.result.provisionedAt,
                                 expiresAt |-> pass'.result.validUntil])
                   /\ status'.observedGeneration = generation
                   /\ status'.currentKeyID = pass'.result.keyId
                   /\ secret'.data = pass'.result.stringData
       /\ \A id \in KeyIds(status.activeKeys) \ KeyIds(status'.activeKeys) :
             exists' => /\ CleanupStep
                        /\ id \in ExpiredIds(status.activeKeys)
                        /\ id \in pass'.deleteOk]_vars

C18_Witness ==
    /\ generation = 2 /\ status.observedGeneration = 2
    /\ status.phase = PhaseReady
    /\ Ids(status.activeKeys) = <<1, 2>>
    /\ status.currentKeyID = 2 /\ secret.data = 2
    /\ pass.setReady /\ pass.deleteCalls = <<>>
    /\ ~(status.activeKeys[1].expiresAt < now)

\* C19: of two resources that name the same output Secret the first writer
\* keeps the controller reference; the Secret write of the other fails, its
\* pass records Failed with the message "output secret: ..." and returns an
\* error, and the Secret's data is never overwritten by the resource that
\* does not own it.
C19_SecretKeptByFirstWriter ==
    [][/\ (secret.exists /\ secret'.exists) => secret'.owner = secret.owner
       /\ (secret.exists /\ secret'.exists /\ secret'.data # secret.data)
             => (Reconcile /\ secret.owner = "self")
       /\ (/\ Reconcile
           /\ pass'.secretWrites = 1
           /\ secret.exists /\ secret.owner = "other")
          => /\ ~pass'.secretWritten /\ secret' = secret
             /\ pass'.setFailed /\ ~pass'.setReady
             /\ pass'.directive.kind = "error"
             /\ pass'.persisted
                  => /\ status'.phase = PhaseFailed
                     /\ status'.lastFailureMessage = "output secret: write failed"
                     /\ pass'.directive = ErrorDirective("output secret: write failed")]_vars

C19_Witness ==
    /\ pass.outcome = "writeFailed" /\ pass.persisted /\ pass.provisionOk
    /\ secret.exists /\ secret.owner = "other" /\ secret.data = -1
    /\ status.phase = PhaseFailed
    /\ status.lastFailureMessage = "output secret: write failed"
    /\ pass.directive.kind = "error"

\* C20 as stated: a pass that returns an error has persisted a SetFailed
\* status before it returns.
C20_StatusBeforeError ==
    [][((Reconcile \/ ReconcileGetFailed) /\ pass'.directive.kind = "error")
          => (pass'.setFailed /\ pass'.persisted)]_vars

\* C20 amended: a pass that returns the error of a failed Provision or of a
\* failed Secret write has persisted SetFailed with that error's message;
\* the errors returned with no failure persisted are those of the resource
\* fetch, of the finalizer update, of a status update, and of the deletion
\* branch.
C20_RenewalErrorRecorded ==
    [][((Reconcile \/ ReconcileGetFailed) /\ pass'.directive.kind = "error") =>
        /\ pass'.directive.err \in {"provisioning failed: provider error",
                                     "output secret: write failed"}
              => /\ pass'.setFailed /\ pass'.persisted
                 /\ status'.phase = PhaseFailed
                 /\ status'.lastFailureMessage = pass'.directive.err
        /\ ~(pass'.setFailed /\ pass'.persisted)
              => pass'.directive.err \in
                    {"get failed", "adding finalizer", "status update failed",
                     "update failed",
                     "failed to delete active key(s), will retry"}]_vars

C20_Witness ==
    /\ pass.directive = ErrorDirective("provisioning failed: provider error")
    /\ pass.setFailed /\ pass.persisted
    /\ status.phase = PhaseFailed
    /\ status.lastFailureMessage = pass.directive.err
    /\ Len(status.activeKeys) = 0

\* A pass of the handler, the one that fails at the fetch included.
AnyPass == Reconcile \/ ReconcileGetFailed

\* C21: a pass in which an API-server call fails (the resource fetch with an
\* error other than not-found, the Secret fetch, the finalizer update, a
\* status update) returns that error to the host.
C21_ApiErrorReturned ==
    [][(AnyPass /\ pass'.apiErrors # {}) => pass'.directive.kind = "error"]_vars

\* C22: when Provision succeeds with an empty key id the pass writes the
\* Secret and, the write and the status update succeeding, persists Ready
\* with currentKeyID empty and no entry added to activeKeys; no entry of
\* activeKeys ever has the empty key id, and no pass calls DeleteKey with it.
C22_EmptyKeyIdUntracked ==
    [][AnyPass =>
        /\ (pass'.provisionOk /\ pass'.result.keyId = 0)
              => /\ pass'.secretWrites = 1
                 /\ (pass'.secretWritten /\ pass'.persisted)
                       => /\ status'.phase = PhaseReady
                          /\ status'.currentKeyID = 0
                          /\ secret'.data = pass'.result.stringData
                          /\ status'.activeKeys =
                                SelectSeq(status.activeKeys,
                                          LAMBDA k : k.keyId \notin pass'.deleteOk)
        /\ 0 \notin KeyIds(status'.activeKeys)
        /\ \A i \in 1..Len(pass'.deleteCalls) : pass'.deleteCalls[i] # 0]_vars

C22_Witness ==
    /\ pass.branch = "deletion" /\ pass.outcome = "removed"
    /\ pass.deleteCalls = <<>>
    /\ nextKey = 2 /\ faults = MaxFaults
    /\ secret.exists /\ secret.owner = "self" /\ secret.data = 1

\* C23: every key of status.activeKeys has createdAt <= expiresAt.
C23_CreatedBeforeExpires ==
    \A i \in 1..Len(status.activeKeys) :
        status.activeKeys[i].createdAt <= status.activeKeys[i].expiresAt

\* The key entry SetReady makes of a provider result.
KeyOf(result) ==
    [keyId |-> result.keyId, createdAt |-> result.provisionedAt,
     expiresAt |-> result.validUntil]

\* C24: while the resource exists, activeKeys holds distinct key ids and
\* changes only by losing entries and by gaining one at the end: the entries
\* that survive a step keep their order and their keyId, createdAt and
\* expiresAt; an entry is gained only at the end, by a pass that persists
\* SetReady, and is the key of that pass's result; an entry is lost only in
\* the cleanup step, being expired and deleted at the provider.
C24_ActiveKeysAppendOnly ==
    [][exists' =>
        LET old == status.activeKeys
            new == status'.activeKeys
            kept == SelectSeq(old, LAMBDA k : k.keyId \in KeyIds(new))
        IN  /\ NoDuplicates(Ids(old)) /\ NoDuplicates(Ids(new))
            /\ \/ new = kept
               \/ /\ new = Append(kept, KeyOf(pass'.result))
                  /\ AnyPass /\ pass'.setReady /\ pass'.persisted
                  /\ pass'.result.keyId \notin KeyIds(old)
            /\ kept # old
                  => /\ CleanupStep
                     /\ (KeyIds(old) \ KeyIds(new))
                           \subseteq (ExpiredIds(old) \cap pass'.deleteOk)]_vars

C24_Witness ==
    /\ pass.branch = "main" /\ pass.outcome = "noRenewal"
    /\ pass.deleteOk = {1}
    /\ Ids(status.activeKeys) = <<2>>
    /\ status.currentKeyID = 2

\* The key Newest returns for the list a call was made on.
NewestOf(keys) == keys[Newest(keys)]

\* C25: NeedsRenewal(generation, secretHasData) answers true exactly when
\* activeKeys is empty, or observedGeneration differs from generation, or
\* secretHasData is false, or the newest key is near expiry; it leaves the
\* status as it was.
C25_NeedsRenewalIff ==
    pass.call.op = "NeedsRenewal" =>
        LET s == pass.call.on
            args == pass.call.args
        IN  /\ pass.call.answer <=>
                  \/ Len(s.activeKeys) = 0
                  \/ s.observedGeneration # args.generation
                  \/ ~args.secretHasData
                  \/ NearExpiry(NewestOf(s.activeKeys), now)
            /\ status = s

C25_Witness ==
    /\ pass.call.op = "NeedsRenewal" /\ pass.call.answer
    /\ Len(pass.call.on.activeKeys) = MaxLen
    /\ pass.call.on.observedGeneration = pass.call.args.generation
    /\ pass.call.args.secretHasData
    /\ now <= NewestOf(pass.call.on.activeKeys).expiresAt

\* The key and the instant of a NearExpiry call.
NearExpiryKey == pass.call.on.activeKeys[pass.call.args.index]

\* C26 as stated: NearExpiry is true exactly when now >= expiresAt or
\* expiresAt - now < min(validity / 10, 7 days), the instant now = expiresAt
\* and validities of zero or below ten units included.
C26_NearExpiryFromExpiryOn ==
    pass.call.op = "NearExpiry" =>
        LET k == NearExpiryKey IN
        pass.call.answer <=>
            \/ now >= k.expiresAt
            \/ (k.expiresAt - now) < RenewalWindow(k)

\* C26 amended: NearExpiry is true exactly when expiresAt < now or
\* expiresAt - now < min(validity / 10, 7 days); at now = expiresAt it is
\* true for a validity of ten units or more and false for a shorter one.
C26_NearExpiryAfterExpiry ==
    pass.call.op = "NearExpiry" =>
        LET k == NearExpiryKey IN
        /\ pass.call.answer <=>
              \/ k.expiresAt < now
              \/ (k.expiresAt - now) < RenewalWindow(k)
        /\ now = k.expiresAt =>
              (pass.call.answer <=> (k.expiresAt - k.createdAt) >= 10)
        /\ status = pass.call.on

C26_Witness ==
    /\ pass.call.op = "NearExpiry" /\ ~pass.call.answer
    /\ now = NearExpiryKey.expiresAt
    /\ NearExpiryKey.expiresAt - NearExpiryKey.createdAt \in 1..9

\* max(1 minute, (newest.expiresAt - now) - min(validity / 10, 7 days))
FlooredDelay(k) == Max(Minute, (k.expiresAt - now) - RenewalWindow(k))

\* C27: RenewalDuration is 0 for an empty activeKeys and otherwise
\* max(1 minute, (newest.expiresAt - now) - min(validity / 10, 7 days)),
\* hence at least one minute; scheduleNext, which ends the no-renewal and
\* the mark-ready step, returns requeue-after of that delay for a non-empty
\* activeKeys and requeue-now only for an empty one.
C27_RenewalDurationFloor ==
    LET keys == pass.call.on.activeKeys IN
    /\ pass.call.op = "RenewalDuration" =>
          /\ Len(keys) = 0 => pass.call.answer = 0
          /\ Len(keys) > 0 => /\ pass.call.answer = FlooredDelay(NewestOf(keys))
                              /\ pass.call.answer >= Minute
    /\ pass.call.op = "scheduleNext" =>
          /\ Len(keys) = 0 => pass.call.answer = RequeueNow
          /\ Len(keys) > 0 =>
                /\ pass.call.answer =
                      Directive("requeueAfter", FlooredDelay(NewestOf(keys)), "", 0)
                /\ pass.call.answer.after >= Minute

C27_Witness ==
    /\ pass.call.op = "scheduleNext"
    /\ pass.call.answer.kind = "requeueAfter"
    /\ pass.call.answer.after = Minute
    /\ Len(pass.call.on.activeKeys) > 0
    /\ NewestOf(pass.call.on.activeKeys).expiresAt < now

\* The positions of the entries with the greatest createdAt.
GreatestCreatedAt(keys) ==
    {i \in 1..Len(keys) : \A j \in 1..Len(keys) : keys[j].createdAt <= keys[i].createdAt}

\* C28: Newest returns nothing for an empty list and otherwise the entry
\* with the greatest createdAt, the one at the highest position when
\* several share it.
C28_NewestLaterWins ==
    pass.call.op = "Newest" =>
        LET keys == pass.call.on.activeKeys IN
        /\ Len(keys) = 0 => pass.call.answer = 0
        /\ Len(keys) > 0 =>
              /\ pass.call.answer \in GreatestCreatedAt(keys)
              /\ \A i \in GreatestCreatedAt(keys) : i <= pass.call.answer

\* C29: DropExpired(now, keep) offers keep once, in list order, to each entry
\* with expiresAt < now and to no other; the list then holds the entries
\* that are not expired or that keep retained, in their order, the returned
\* list the expired entries keep did not retain, in their order; together
\* they are the entries of the original list, each once.
C29_DropExpiredPartition ==
    pass.call.op = "DropExpired" =>
        LET keys == pass.call.on.activeKeys
            keep == pass.call.args.keep
            kept == pass.call.answer.kept
            dropped == pass.call.answer.dropped
        IN  /\ pass.call.answer.offered =
                  Ids(SelectSeq(keys, LAMBDA k : k.expiresAt < now))
            /\ kept = SelectSeq(keys, LAMBDA k : ~(k.expiresAt < now) \/ k.keyId \in keep)
            /\ dropped = SelectSeq(keys, LAMBDA k : k.expiresAt < now /\ k.keyId \notin keep)
            /\ status.activeKeys = kept
            /\ KeyIds(kept) \cup KeyIds(dropped) = KeyIds(keys)
            /\ KeyIds(kept) \cap KeyIds(dropped) = {}
            /\ Len(kept) + Len(dropped) = Len(keys)

C29_Witness ==
    /\ pass.call.op = "DropExpired"
    /\ Len(pass.call.on.activeKeys) = MaxLen
    /\ Len(pass.call.answer.dropped) = 1
    /\ Len(pass.call.answer.offered) = 2
    /\ Ids(status.activeKeys) = <<1, 3>>
    /\ status.activeKeys[1].expiresAt < now
    /\ ~(status.activeKeys[2].expiresAt < now)

\* C30: SetReady(generation, result) sets phase Ready, observedGeneration
\* to generation, currentKeyID to result.keyId and failureCount to 0, clears
\* lastFailure and lastFailureMessage, leaves one Ready condition, True with
\* reason Provisioned and the given generation, and appends the key of the
\* result to activeKeys exactly when its id is not empty, the earlier
\* entries staying as they were.
C30_SetReadyEffect ==
    pass.call.op = "SetReady" =>
        LET s == pass.call.on
            args == pass.call.args
            ready == SelectSeq(status.conditions, LAMBDA c : c.type = ConditionReady)
        IN  /\ status.phase = PhaseReady
            /\ status.observedGeneration = args.generation
            /\ status.currentKeyID = args.result.keyId
            /\ status.failureCount = 0
            /\ status.lastFailure = -1
            /\ status.lastFailureMessage = ""
            /\ Len(ready) = 1
            /\ ready[1].status = "True" /\ ready[1].reason = "Provisioned"
            /\ ready[1].observedGeneration = args.generation
            /\ args.result.keyId # 0
                  => status.activeKeys = Append(s.activeKeys, KeyOf(args.result))
            /\ args.result.keyId = 0 => status.activeKeys = s.activeKeys

C30_Witness ==
    /\ pass.call.op = "SetReady"
    /\ pass.call.on.phase = PhaseFailed /\ pass.call.on.failureCount > 0
    /\ pass.call.on.lastFailureMessage # ""
    /\ Len(pass.call.on.activeKeys) = 2
    /\ Len(status.activeKeys) = MaxLen
    /\ status.currentKeyID = MaxLen + 1 /\ status.failureCount = 0
    /\ pass.call.args.generation = 2

\* The Ready conditions of a status.
ReadyConditions(s) ==
    {i \in 1..Len(s.conditions) : s.conditions[i].type = ConditionReady}

\* C31: SetFailed(generation, error) sets phase Failed, adds exactly one to
\* failureCount, sets lastFailure to the time of the call and
\* lastFailureMessage to the error text, sets the Ready condition to False
\* with reason ProvisioningFailed, and leaves observedGeneration,
\* currentKeyID and activeKeys as they were; after n SetFailed calls in a
\* row from failureCount 0 the count is n and there is one Ready condition.
C31_SetFailedEffect ==
    pass.call.op = "SetFailed" =>
        LET on == pass.call.on
            args == pass.call.args
            after == pass.call.answer
        IN  /\ after.phase = PhaseFailed
            /\ after.failureCount = on.failureCount + 1
            /\ after.lastFailure = args.now
            /\ after.lastFailureMessage = args.err
            /\ Cardinality(ReadyConditions(after)) = 1
            /\ Len(after.conditions) = 1
            /\ after.conditions[1].status = "False"
            /\ after.conditions[1].reason = "ProvisioningFailed"
            /\ after.observedGeneration = on.observedGeneration
            /\ after.currentKeyID = on.currentKeyID
            /\ after.activeKeys = on.activeKeys
            /\ after.failureCount = pass.failedRun
            /\ status = after

\* Three SetFailed calls in a row on a status that tracked a key.
C31_Witness ==
    /\ pass.call.op = "SetFailed"
    /\ pass.failedRun = 3
    /\ status.failureCount = 3
    /\ Len(status.activeKeys) > 0
    /\ status.lastFailure > 0
    /\ pass.call.args.generation # status.observedGeneration

\* C37 as stated: in every state reachable from the empty status by SetReady
\* and SetFailed calls, conditions holds exactly one Ready condition, phase
\* is Ready iff it is True and Failed iff it is False, and failureCount is
\* positive iff phase is Failed.
C37_OneReadyCondition ==
    /\ Cardinality(ReadyConditions(status)) = 1
    /\ \A i \in ReadyConditions(status) :
          /\ status.phase = PhaseReady <=> status.conditions[i].status = "True"
          /\ status.phase = PhaseFailed <=> status.conditions[i].status = "False"
    /\ status.failureCount > 0 <=> status.phase = PhaseFailed

\* C37 amended: the same from the first SetReady or SetFailed call on; the
\* empty status itself has no condition, an empty phase and failureCount 0.
C37_OneReadyConditionOnceSet ==
    /\ pass.call.op \in {"SetReady", "SetFailed"} => C37_OneReadyCondition
    /\ pass.call.op = "none" =>
          /\ status = EmptyStatus
          /\ ReadyConditions(status) = {}
          /\ status.failureCount = 0

\* A status set Ready after two failures, and one set Failed after Ready.
C37_Witness ==
    /\ pass.call.op = "SetReady"
    /\ pass.call.on.failureCount = 2
    /\ pass.call.on.phase = PhaseFailed
    /\ status.phase = PhaseReady
    /\ Len(status.activeKeys) = 2

\* C32: within one Reconcile pass Provider.Provision is called at most once
\* and the output Secret is written at most once; the write comes after
\* Provision has returned success in that pass and carries the data of that
\* result; no pass changes the Secret without such a Provision.
C32_SecretWrittenAfterProvision ==
    [][AnyPass =>
        LET steps == pass'.steps IN
        /\ pass'.provisionCalls = Times(steps, "Provision")
        /\ pass'.secretWrites = Times(steps, "WriteSecret")
        /\ pass'.provisionCalls <= 1
        /\ pass'.secretWrites <= 1
        /\ \A i \in 1..Len(steps) :
              steps[i] = "WriteSecret" =>
                  /\ pass'.provisionOk
                  /\ \E j \in 1..(i - 1) : steps[j] = "Provision"
        /\ pass'.secretWritten =>
              /\ pass'.secretWrites = 1
              /\ secret' = [exists |-> TRUE, owner |-> "self",
                            data |-> pass'.result.stringData]
        /\ secret' # secret => pass'.secretWritten
        /\ pass'.branch # "main" => steps = <<>>]_vars

\* A pass that replaced the data of an existing Secret with the data of its
\* own Provision.
C32_Witness ==
    /\ pass.steps = <<"Provision", "WriteSecret">>
    /\ pass.secretWritten
    /\ pass.result.stringData = 2
    /\ secret.data = 2

\* C33: when the resource named by the request does not exist, Reconcile
\* returns no requeue and no error, calls the provider for nothing and writes
\* neither a resource, a status nor a Secret.
C33_NotFoundSwallowed ==
    [][(Reconcile /\ ~exists) =>
        /\ pass'.branch = "notfound"
        /\ pass'.directive = NoDirective
        /\ pass'.calls = <<>>
        /\ pass'.provisionCalls = 0
        /\ pass'.deleteCalls = <<>>
        /\ pass'.resourceWrites = 0
        /\ pass'.statusWrites = 0
        /\ pass'.secretWrites = 0
        /\ pass'.apiErrors = {}
        /\ ~queued'
        /\ requeueAt' \in {-1, requeueAt}
        /\ UNCHANGED <<resourceVars, status, secret, nextKey, issued>>]_vars

\* A pass for a resource that is gone while its Secret is still there.
C33_Witness ==
    /\ pass.branch = "notfound"
    /\ ~exists
    /\ secret.exists
    /\ pass.directive = NoDirective
    /\ ~queued

\* C34: a pass on a resource with a deletion timestamp and without the
\* finalizer returns success with no requeue, calls Provider.DeleteKey for no
\* key and writes neither the resource, its status nor the Secret; and no
\* pass of the deletion branch calls Provider.Provision or writes the status
\* or the Secret.
C34_DeletionWithoutFinalizer ==
    [][(Reconcile /\ exists /\ deletionTimestamp) =>
        /\ pass'.branch = "deletion"
        /\ pass'.provisionCalls = 0
        /\ pass'.steps = <<>>
        /\ \A i \in 1..Len(pass'.calls) : pass'.calls[i] = "DeleteKey"
        /\ pass'.statusWrites = 0
        /\ pass'.secretWrites = 0
        /\ secret' = secret
        /\ nextKey' = nextKey
        /\ exists' => status' = status
        /\ ~hasFinalizer =>
              /\ pass'.outcome = "noFinalizer"
              /\ pass'.directive = NoDirective
              /\ ~queued'
              /\ requeueAt' \in {-1, requeueAt}
              /\ pass'.deleteCalls = <<>>
              /\ pass'.calls = <<>>
              /\ pass'.resourceWrites = 0
              /\ UNCHANGED <<resourceVars, status, issued>>]_vars

\* A deletion pass on a resource that was deleted before the finalizer was
\* added and is held by another controller's finalizer.
C34_Witness ==
    /\ pass.outcome = "noFinalizer"
    /\ exists /\ deletionTimestamp /\ ~hasFinalizer
    /\ pass.prevOutcome = "other"
    /\ pass.directive = NoDirective
    /\ ~queued

\* C39: a pass on a valid resource that has the finalizer and no deletion
\* timestamp, that finds no expired key and for which NeedsRenewal is false,
\* only reads: it calls neither Provision nor DeleteKey, writes neither the
\* resource, its status nor the Secret, and returns
\* requeue-after(RenewalDuration()) with no error.
C39_PureRead ==
    [][(/\ CleanupStep
        /\ ExpiredIds(status.activeKeys) = {}
        /\ ~NeedsRenewal(status, generation,
                         secretHasData("secretGet" \notin pass'.apiErrors), now))
       => /\ pass'.outcome = "noRenewal"
          /\ pass'.calls = <<>>
          /\ pass'.steps = <<>>
          /\ pass'.provisionCalls = 0
          /\ pass'.deleteCalls = <<>>
          /\ pass'.resourceWrites = 0
          /\ pass'.statusWrites = 0
          /\ pass'.secretWrites = 0
          /\ UNCHANGED <<resourceVars, status, secret, nextKey, issued>>
          /\ pass'.directive =
                Directive("requeueAfter", RenewalDuration(status, now), "", 0)
          /\ pass'.directive.after >= Minute
          /\ ~queued']_vars

\* A read-only pass some time after the key it finds was provisioned.
C39_Witness ==
    /\ pass.outcome = "noRenewal"
    /\ pass.deleteCalls = <<>>
    /\ pass.statusWrites = 0
    /\ pass.directive.kind = "requeueAfter"
    /\ Len(status.activeKeys) > 0
    /\ NewestKey.createdAt < now
    /\ ExpiredIds(status.activeKeys) = {}

\* C38: the engine never provisions in a tight loop: a pass in which
\* Provider.Provision succeeded and that persisted the status as Ready
\* returns requeue-after(d) with d of at least one minute, and the pass
\* that follows it with no change from outside does not call Provision.
C38_NoTightProvisioningLoop ==
    [][/\ (/\ AnyPass
            /\ pass'.provisionOk /\ pass'.setReady /\ pass'.persisted)
           => /\ pass'.directive.kind = "requeueAfter"
              /\ pass'.directive.after >= Minute
       /\ (/\ AnyPass
            /\ quiet /\ ~pass'.faulty
            /\ pass.provisionOk /\ pass.setReady /\ pass.persisted)
           => pass'.provisionCalls = 0]_vars

\* The number of inner calls of an operation that returned a nil error
\* (succeeded) or a non-nil one.
InnerCalls(op, succeeded) ==
    Cardinality({i \in 1..Len(metrics.inner) :
                    /\ metrics.inner[i].op = op
                    /\ (metrics.inner[i].err = NilError) = succeeded})

\* The sum of the four counters.
CounterSum(m) ==
    m.ProvisionTotal["success"] + m.ProvisionTotal["error"]
        + m.DeleteKeyTotal["success"] + m.DeleteKeyTotal["error"]

\* C35: the instrumented provider is a transparent wrapper: every Provision
\* or DeleteKey call on it makes exactly one call of the inner provider with
\* the same arguments, returns the inner result and error unchanged, and
\* adds one to exactly one counter of that operation, labelled "success"
\* iff the inner error is nil and "error" otherwise, so the counters always
\* equal the numbers of successful and failed inner calls.
C35_TransparentWrapper ==
    /\ [](/\ metrics.outer = metrics.inner
           /\ metrics.ProvisionTotal["success"] = InnerCalls("Provision", TRUE)
           /\ metrics.ProvisionTotal["error"] = InnerCalls("Provision", FALSE)
           /\ metrics.DeleteKeyTotal["success"] = InnerCalls("DeleteKey", TRUE)
           /\ metrics.DeleteKeyTotal["error"] = InnerCalls("DeleteKey", FALSE))
    /\ [][InstrumentedNext =>
            /\ Len(metrics'.outer) = Len(metrics.outer) + 1
            /\ Len(metrics'.inner) = Len(metrics.inner) + 1
            /\ CounterSum(metrics') = CounterSum(metrics) + 1
            /\ LET call == metrics'.outer[Len(metrics'.outer)]
                    total == IF call.op = "Provision" THEN "ProvisionTotal"
                             ELSE "DeleteKeyTotal"
                    label == IF call.err = NilError THEN "success" ELSE "error"
               IN  metrics'[total][label] = metrics[total][label] + 1]_vars

\* Calls of both operations with both outcomes on one wrapper.
C35_Witness ==
    /\ Len(metrics.outer) = 3
    /\ metrics.ProvisionTotal["success"] = 1
    /\ metrics.ProvisionTotal["error"] = 1
    /\ metrics.DeleteKeyTotal["error"] = 1
    /\ metrics.outer[3].op = "Provision"
    /\ metrics.outer[3].result.keyId = 3

\* C36: withRetry always ends, after at most maxRetries + 1 = 6 invocations
\* of fn: it returns at once, without a further invocation, on the first
\* success or the first error that is not a rate-limit error, invokes fn
\* again only after a rate-limit error, and returns the last error after six
\* rate-limit errors in a row.
C36_WithRetryTerminates ==
    /\ [](LET calls == retry.invocations
              n == Len(retry.invocations)
          IN  /\ maxRetries + 1 = 6
              /\ n <= maxRetries + 1
              /\ \A i \in 1..(n - 1) : calls[i] \in RateLimitErrors
              /\ (n > 0 /\ calls[n] \notin RateLimitErrors) => retry.returned
              /\ retry.returned =>
                    /\ n > 0
                    /\ retry.err = calls[n]
                    /\ calls[n] \in RateLimitErrors => n = maxRetries + 1
              /\ retry.sleeps = Min(retry.attempt, maxRetries))
    /\ [][retry.returned => retry' = retry]_vars
    /\ <>retry.returned

\* Six rate-limit errors in a row, the last of them returned.
C36_Witness ==
    /\ retry.returned
    /\ Len(retry.invocations) = 6
    /\ retry.err = TooManyRequests
    /\ retry.invocations[1] = Status429
    /\ retry.sleeps = 5

====
